---- MODULE Spec2Model ----
(***************************************************************************)
(* A model of the Medici double-entry ledger (src/medici-banking.py):      *)
(* accounts, transactions, record_transaction and the CSV/JSON import and  *)
(* export paths, with python's Decimal arithmetic modelled digit by digit  *)
(* at the default context precision.                                       *)
(***************************************************************************)
EXTENDS Integers, Sequences, FiniteSets, TLC

(***************************************************************************)
(* Decimal.  Every amount and balance of the program is a decimal.Decimal  *)
(* computed under python's default context: 28 significant digits,         *)
(* ROUND_HALF_EVEN.  A value is a sign and a fixed-point digit string,     *)
(* most significant digit first, with IntDigits digits before the point    *)
(* and FracDigits after it; values with digits beyond these are outside    *)
(* the model.  The unit of the model is the cent (0.01       *)
(* ducat): Decimal rounds to significant digits, so a change of unit by a  *)
(* power of ten changes no result.                                         *)
(***************************************************************************)
Prec == 28

IntDigits == 3

FracDigits == 30

NDigits == IntDigits + FracDigits

\* the powers of ten that fit a machine integer
Powers == <<1, 10, 100, 1000, 10000, 100000, 1000000, 10000000, 100000000, 1000000000>>

Pow10(k) == Powers[k + 1]

\* the digit string of the natural number k (k < 10^IntDigits)
MagFromInt(k) ==
    [i \in 1..NDigits |->
        IF i <= IntDigits THEN (k \div Pow10(IntDigits - i)) % 10 ELSE 0]

\* the digit string that has the digit f[i] at every index i of 1..n
DigitString(f, n) == SubSeq(f, 1, n)

\* index of the first nonzero digit of m, Len(m) + 1 when m is zero
LeadPos(m) ==
    IF \A i \in 1..Len(m) : m[i] = 0 THEN Len(m) + 1
    ELSE CHOOSE i \in 1..Len(m) : m[i] # 0 /\ \A j \in 1..(i - 1) : m[j] = 0

\* Digit strings are added, subtracted and divided six digits at a time.
\* the number that the digits lo..hi of m write (at most six digits)
BlockValue(m, lo, hi) ==
    LET d(j) == IF j <= hi THEN m[j] * Pow10(hi - j) ELSE 0
    IN  d(lo) + d(lo + 1) + d(lo + 2) + d(lo + 3) + d(lo + 4) + d(lo + 5)

\* the digit string of length len of the natural number v (v < 10^len)
BlockDigits(v, len) == DigitString([i \in 1..len |-> (v \div Pow10(len - i)) % 10], len)

\* the first index of the block that ends at hi, and the last index of the
\* block of m that begins at lo
BlockLo(hi) == IF hi > 6 THEN hi - 5 ELSE 1

BlockHi(m, lo) == IF lo + 5 < Len(m) THEN lo + 5 ELSE Len(m)

\* a + b on digit strings of equal length, right to left with carry; the
\* digits up to hi are still to be added
RECURSIVE MagAddRec(_, _, _, _, _)
MagAddRec(a, b, hi, carry, acc) ==
    IF hi = 0 THEN acc
    ELSE LET lo   == BlockLo(hi)
             unit == Pow10(hi - lo + 1)
             s    == BlockValue(a, lo, hi) + BlockValue(b, lo, hi) + carry
         IN  MagAddRec(a, b, lo - 1, s \div unit,
                       BlockDigits(s % unit, hi - lo + 1) \o acc)

MagAdd(a, b) == MagAddRec(a, b, Len(a), 0, <<>>)

\* a - b on digit strings of equal length, for a >= b, with borrow
RECURSIVE MagSubRec(_, _, _, _, _)
MagSubRec(a, b, hi, borrow, acc) ==
    IF hi = 0 THEN acc
    ELSE LET lo   == BlockLo(hi)
             unit == Pow10(hi - lo + 1)
             s    == BlockValue(a, lo, hi) - BlockValue(b, lo, hi) - borrow
         IN  IF s < 0
             THEN MagSubRec(a, b, lo - 1, 1, BlockDigits(s + unit, hi - lo + 1) \o acc)
             ELSE MagSubRec(a, b, lo - 1, 0, BlockDigits(s, hi - lo + 1) \o acc)

MagSub(a, b) == MagSubRec(a, b, Len(a), 0, <<>>)

\* -1, 0, 1 as a < b, a = b, a > b: decided by the first digit that differs
MagCmp(a, b) ==
    IF \A i \in 1..Len(a) : a[i] = b[i] THEN 0
    ELSE LET i == CHOOSE i \in 1..Len(a) : a[i] # b[i] /\ \A j \in 1..(i - 1) : a[j] = b[j]
         IN  IF a[i] < b[i] THEN -1 ELSE 1

\* some digit of m at an index >= i is nonzero
AnyNonZeroFrom(m, i) == \E j \in i..Len(m) : m[j] # 0

\* The context rounding: ext is an exact digit string (NDigits digits or
\* more), sticky says that the exact value has nonzero digits beyond ext.
\* The result keeps Prec significant digits, rounding half to even.
RoundMag(ext, sticky) ==
    LET p    == LeadPos(ext)
        cut  == p + Prec - 1
        kept == DigitString([i \in 1..NDigits |->
                                IF i <= cut /\ i <= Len(ext) THEN ext[i] ELSE 0], NDigits)
    IN  IF cut >= Len(ext)
        THEN kept
        ELSE LET g    == ext[cut + 1]
                 rest == AnyNonZeroFrom(ext, cut + 2) \/ sticky
                 up   == \/ g > 5
                         \/ g = 5 /\ rest
                         \/ g = 5 /\ ~rest /\ ext[cut] % 2 = 1
                 ulp  == [i \in 1..NDigits |-> IF i = cut THEN 1 ELSE 0]
             IN  IF up THEN MagAdd(kept, ulp) ELSE kept

ZeroFrac == [i \in 1..FracDigits |-> 0]

RECURSIVE IntOfDigits(_, _, _)
IntOfDigits(m, i, acc) ==
    IF i > IntDigits THEN acc ELSE IntOfDigits(m, i + 1, acc * 10 + m[i])

\* A Decimal value: sign, integer part (a natural number of cents) and the
\* FracDigits digits after the point.  Zero is never negative: python's -0
\* compares equal to 0 and behaves like it in every operation modelled.
Dec(neg, mag) ==
    LET ip == IntOfDigits(mag, 1, 0)
        fr == SubSeq(mag, IntDigits + 1, NDigits)
    IN  [neg |-> neg /\ (ip # 0 \/ fr # ZeroFrac), ip |-> ip, fr |-> fr]

\* the digit string of a Decimal value
MagOf(x) == SubSeq(MagFromInt(x.ip), 1, IntDigits) \o x.fr

\* Decimal(k) for an integer k of cents
DecFromInt(k) ==
    IF k < 0 THEN [neg |-> TRUE, ip |-> -k, fr |-> ZeroFrac]
    ELSE [neg |-> FALSE, ip |-> k, fr |-> ZeroFrac]

DecZero == DecFromInt(0)

\* a special value of Decimal: kind is "Infinity", "NaN" (quiet) or "sNaN"
\* (signaling), with its sign.  The diagnostic digits a NaN may carry show
\* nowhere in the program.
Special(neg, kind) == [neg |-> neg, special |-> kind]

\* what an operation gives in place of a value when it signals
\* decimal.InvalidOperation, which the default context traps: the exception
\* is raised
InvalidOperation == Special(FALSE, "InvalidOperation")

\* "finite", or the kind of a special value
Kind(x) == IF "special" \in DOMAIN x THEN x.special ELSE "finite"

\* x is a whole number of cents
IsWholeCents(x) == Kind(x) = "finite" /\ x.fr = ZeroFrac

\* the integer value of a whole number of cents
IntOfDec(x) == IF x.neg THEN -x.ip ELSE x.ip

IsZero(x) == Kind(x) = "finite" /\ x.ip = 0 /\ x.fr = ZeroFrac

\* the operand of a subtraction with its sign changed; a NaN is left as it is
DecNeg(x) ==
    IF Kind(x) = "finite" THEN [neg |-> ~x.neg /\ ~IsZero(x), ip |-> x.ip, fr |-> x.fr]
    ELSE IF Kind(x) = "Infinity" THEN Special(~x.neg, "Infinity")
    ELSE x

\* x + y where x or y is special: a signaling NaN signals, a quiet NaN is
\* passed on (the first of two), infinities of opposite signs signal, an
\* infinity absorbs a finite value
SpecialAdd(x, y) ==
    IF {Kind(x), Kind(y)} \cap {"sNaN", "InvalidOperation"} # {} THEN InvalidOperation
    ELSE IF Kind(x) = "NaN" THEN x
    ELSE IF Kind(y) = "NaN" THEN y
    ELSE IF Kind(x) = "Infinity" /\ Kind(y) = "Infinity" /\ x.neg # y.neg
    THEN InvalidOperation
    ELSE IF Kind(x) = "Infinity" THEN x
    ELSE y

\* the mathematical sum x + y, not rounded; whole numbers are added as
\* integers, the rest digit by digit
ExactAdd(x, y) ==
    IF Kind(x) # "finite" \/ Kind(y) # "finite" THEN SpecialAdd(x, y)
    ELSE IF IsWholeCents(x) /\ IsWholeCents(y) THEN DecFromInt(IntOfDec(x) + IntOfDec(y))
    ELSE LET a == MagOf(x)
             b == MagOf(y)
         IN  IF x.neg = y.neg THEN Dec(x.neg, MagAdd(a, b))
             ELSE IF MagCmp(a, b) >= 0 THEN Dec(x.neg, MagSub(a, b))
             ELSE Dec(y.neg, MagSub(b, a))

\* the context rounding of an exact value; a whole number of fewer than
\* Prec digits is left as it is
DecRound(x) ==
    IF Kind(x) # "finite" THEN x
    ELSE IF IsWholeCents(x) /\ IntDigits <= Prec THEN x
    ELSE Dec(x.neg, RoundMag(MagOf(x), FALSE))

\* Decimal.__abs__: the sign cleared, the result rounded to the context; a
\* quiet NaN is passed on, a signaling NaN signals
DecAbs(x) ==
    IF Kind(x) = "finite" THEN DecRound([neg |-> FALSE, ip |-> x.ip, fr |-> x.fr])
    ELSE IF Kind(x) = "Infinity" THEN Special(FALSE, "Infinity")
    ELSE IF Kind(x) = "NaN" THEN x
    ELSE InvalidOperation

\* Decimal.__add__ and Decimal.__sub__ under the default context
DecAdd(x, y) == DecRound(ExactAdd(x, y))

DecSub(x, y) == DecAdd(x, DecNeg(y))

\* -1, 0, 1 as x < y, x = y, x > y: by sign, then integer part, then digits;
\* an ordering comparison (<, <=, >, >=) with a NaN signals
DecCmp(x, y) ==
    IF {Kind(x), Kind(y)} \cap {"NaN", "sNaN", "InvalidOperation"} # {} THEN InvalidOperation
    ELSE IF x = y THEN 0
    ELSE IF Kind(x) = "Infinity" THEN (IF x.neg THEN -1 ELSE 1)
    ELSE IF Kind(y) = "Infinity" THEN (IF y.neg THEN 1 ELSE -1)
    ELSE IF x.neg /\ ~y.neg THEN -1
    ELSE IF ~x.neg /\ y.neg THEN 1
    ELSE LET c == IF x.ip < y.ip THEN -1
                  ELSE IF x.ip > y.ip THEN 1
                  ELSE MagCmp(x.fr, y.fr)
         IN  IF x.neg THEN -c ELSE c

\* Decimal.__eq__: equality of values; a quiet NaN equals nothing, a
\* signaling NaN signals
DecEq(x, y) ==
    IF {Kind(x), Kind(y)} \cap {"sNaN", "InvalidOperation"} # {} THEN InvalidOperation
    ELSE IF "NaN" \in {Kind(x), Kind(y)} THEN FALSE
    ELSE x = y

\* long division of a digit string by the small integer n: the quotient
\* digits, left to right, and the last remainder; the digits from lo on are
\* still to be divided
RECURSIVE MagDivRec(_, _, _, _, _)
MagDivRec(m, n, lo, rem, acc) ==
    IF lo > Len(m) THEN [q |-> acc, r |-> rem]
    ELSE LET hi  == BlockHi(m, lo)
             cur == rem * Pow10(hi - lo + 1) + BlockValue(m, lo, hi)
         IN  MagDivRec(m, n, hi + 1, cur % n,
                       acc \o BlockDigits(cur \div n, hi - lo + 1))

\* Decimal.__truediv__ by the integer n >= 1 under the default context: the
\* quotient is taken with one guard digit, then rounded
DecDivInt(x, n) ==
    IF Kind(x) \in {"sNaN", "InvalidOperation"} THEN InvalidOperation
    ELSE IF Kind(x) # "finite" THEN x
    ELSE IF n = 1 THEN DecRound(x)
    ELSE IF IsWholeCents(x) /\ x.ip % n = 0 THEN Dec(x.neg, MagFromInt(x.ip \div n))
    ELSE LET d == MagDivRec(MagOf(x) \o <<0>>, n, 1, 0, <<>>)
         IN  Dec(x.neg, RoundMag(d.q, d.r # 0))

RECURSIVE DecSumFrom(_, _, _)
DecSumFrom(s, i, acc) ==
    IF i > Len(s) THEN acc ELSE DecSumFrom(s, i + 1, DecAdd(acc, s[i]))

\* sum(...) of python over a sequence of Decimals, starting from 0
DecSum(s) == DecSumFrom(s, 1, DecZero)

(***************************************************************************)
(* Text.  A python str that the program takes apart (an account name, the  *)
(* debit_account field of a CSV row) is a sequence of one-character        *)
(* strings.                                                                *)
(***************************************************************************)
\* The characters of a string are those of Latin-1, U+0000 to U+00FF.  The
\* letters str.lower() changes: A to Z, and the capitals U+00C0 to U+00DE
\* (the multiplication sign U+00D7 is none)
UpperCase ==
    <<"A", "B", "C", "D", "E", "F", "G", "H", "I", "J", "K", "L", "M",
      "N", "O", "P", "Q", "R", "S", "T", "U", "V", "W", "X", "Y", "Z",
      "À", "Á", "Â", "Ã", "Ä", "Å", "Æ", "Ç", "È", "É", "Ê", "Ë", "Ì", "Í", "Î",
      "Ï", "Ð", "Ñ", "Ò", "Ó", "Ô", "Õ", "Ö", "Ø", "Ù", "Ú", "Û", "Ü", "Ý", "Þ">>

LowerCase ==
    <<"a", "b", "c", "d", "e", "f", "g", "h", "i", "j", "k", "l", "m",
      "n", "o", "p", "q", "r", "s", "t", "u", "v", "w", "x", "y", "z",
      "à", "á", "â", "ã", "ä", "å", "æ", "ç", "è", "é", "ê", "ë", "ì", "í", "î",
      "ï", "ð", "ñ", "ò", "ó", "ô", "õ", "ö", "ø", "ù", "ú", "û", "ü", "ý", "þ">>

\* str.lower() on one character
LowerChar(c) ==
    IF \E i \in 1..Len(UpperCase) : UpperCase[i] = c
    THEN LowerCase[CHOOSE i \in 1..Len(UpperCase) : UpperCase[i] = c]
    ELSE c

\* str.lower()
Lower(s) == [i \in 1..Len(s) |-> LowerChar(s[i])]

\* k in s, for strings
Contains(s, k) ==
    \E i \in 0..(Len(s) - Len(k)) : SubSeq(s, i + 1, i + Len(k)) = k

\* the characters str.isspace() holds for: blank, tab, line feed, carriage
\* return, form feed, and, written as they are, the vertical tab U+000B, the
\* separators U+001C to U+001F, the next line U+0085 and the no-break space
\* U+00A0
Whitespace ==
    {" ", "\t", "\n", "\r", "\f", "", "", "", "", "", "", " "}

\* str.strip(): leading and trailing whitespace removed
RECURSIVE LStrip(_)
LStrip(s) == IF s # <<>> /\ Head(s) \in Whitespace THEN LStrip(Tail(s)) ELSE s

RECURSIVE RStrip(_)
RStrip(s) ==
    IF s # <<>> /\ s[Len(s)] \in Whitespace THEN RStrip(SubSeq(s, 1, Len(s) - 1)) ELSE s

Strip(s) == RStrip(LStrip(s))

\* str.split(','): the pieces of s between commas, in order
RECURSIVE SplitRec(_, _, _, _)
SplitRec(s, i, cur, acc) ==
    IF i > Len(s) THEN Append(acc, cur)
    ELSE IF s[i] = "," THEN SplitRec(s, i + 1, <<>>, Append(acc, cur))
    ELSE SplitRec(s, i + 1, Append(cur, s[i]), acc)

SplitComma(s) == SplitRec(s, 1, <<>>, <<>>)

\* ', '.join(parts)
RECURSIVE JoinRec(_, _, _)
JoinRec(parts, i, acc) ==
    IF i > Len(parts) THEN acc
    ELSE IF i = 1 THEN JoinRec(parts, 2, parts[1])
    ELSE JoinRec(parts, i + 1, acc \o <<",", " ">> \o parts[i])

JoinComma(parts) == JoinRec(parts, 1, <<>>)

\* the stripped pieces that are not empty, in order
RECURSIVE FilterNonEmpty(_, _, _)
FilterNonEmpty(parts, i, acc) ==
    IF i > Len(parts) THEN acc
    ELSE IF Strip(parts[i]) # <<>>
         THEN FilterNonEmpty(parts, i + 1, Append(acc, Strip(parts[i])))
         ELSE FilterNonEmpty(parts, i + 1, acc)

\* [acc.strip() for acc in field.split(',') if acc.strip()]
SplitNames(field) == FilterNonEmpty(SplitComma(field), 1, <<>>)

(***************************************************************************)
(* Accounts.                                                               *)
(***************************************************************************)
\* class AccountType(Enum): the members, with the values auto() gives them
ASSET == 1

LIABILITY == 2

EQUITY == 3

REVENUE == 4

EXPENSE == 5

AccountType == {ASSET, LIABILITY, EQUITY, REVENUE, EXPENSE}

\* the types that debits increase: (AccountType.ASSET, AccountType.EXPENSE)
DebitNormal == {ASSET, EXPENSE}

AssetKeywords ==
    <<<<"c", "a", "s", "h">>,
      <<"r", "e", "c", "e", "i", "v", "a", "b", "l", "e">>,
      <<"i", "n", "v", "e", "n", "t", "o", "r", "y">>,
      <<"l", "a", "n", "d">>,
      <<"b", "u", "i", "l", "d", "i", "n", "g">>,
      <<"e", "q", "u", "i", "p", "m", "e", "n", "t">>,
      <<"a", "s", "s", "e", "t">>>>

LiabilityKeywords ==
    <<<<"p", "a", "y", "a", "b", "l", "e">>,
      <<"l", "o", "a", "n">>,
      <<"d", "e", "b", "t">>,
      <<"l", "i", "a", "b", "i", "l", "i", "t", "y">>,
      <<"d", "e", "p", "o", "s", "i", "t", "s", " ", "p", "a", "y", "a", "b", "l", "e">>>>

EquityKeywords ==
    <<<<"c", "a", "p", "i", "t", "a", "l">>,
      <<"e", "q", "u", "i", "t", "y">>,
      <<"r", "e", "t", "a", "i", "n", "e", "d", " ", "e", "a", "r", "n", "i", "n", "g", "s">>,
      <<"o", "w", "n", "e", "r">>>>

RevenueKeywords ==
    <<<<"r", "e", "v", "e", "n", "u", "e">>,
      <<"i", "n", "c", "o", "m", "e">>,
      <<"s", "a", "l", "e", "s">>,
      <<"i", "n", "t", "e", "r", "e", "s", "t", " ", "i", "n", "c", "o", "m", "e">>,
      <<"f", "e", "e">>>>

ExpenseKeywords ==
    <<<<"e", "x", "p", "e", "n", "s", "e">>,
      <<"w", "a", "g", "e", "s">>,
      <<"r", "e", "n", "t">>,
      <<"s", "u", "p", "p", "l", "i", "e", "s">>,
      <<"m", "a", "i", "n", "t", "e", "n", "a", "n", "c", "e">>,
      <<"c", "o", "u", "r", "i", "e", "r">>,
      <<"c", "o", "s", "t">>>>

AnyKeyword(name_lower, keywords) ==
    \E i \in 1..Len(keywords) : Contains(name_lower, keywords[i])

\* a faulty variant of InferAccountType: the keywords are looked for in the
\* name as it is written, not in its lower-case form
InferAccountTypeAsWritten(account_name) ==
    IF AnyKeyword(account_name, AssetKeywords) THEN ASSET
    ELSE IF AnyKeyword(account_name, LiabilityKeywords) THEN LIABILITY
    ELSE IF AnyKeyword(account_name, EquityKeywords) THEN EQUITY
    ELSE IF AnyKeyword(account_name, RevenueKeywords) THEN REVENUE
    ELSE IF AnyKeyword(account_name, ExpenseKeywords) THEN EXPENSE
    ELSE ASSET

\* Ledger._infer_account_type
InferAccountType(account_name) ==
    LET name_lower == Lower(account_name)
    IN  IF AnyKeyword(name_lower, AssetKeywords) THEN ASSET
        ELSE IF AnyKeyword(name_lower, LiabilityKeywords) THEN LIABILITY
        ELSE IF AnyKeyword(name_lower, EquityKeywords) THEN EQUITY
        ELSE IF AnyKeyword(name_lower, RevenueKeywords) THEN REVENUE
        ELSE IF AnyKeyword(name_lower, ExpenseKeywords) THEN EXPENSE
        ELSE ASSET

\* python's None as the name of an account (a JSON import gives it for
\* "account": null): it is equal to itself and to no str, which is a
\* sequence of one-character strings
NoneName == <<"None">>

\* Account.__init__
NewAccount(name, account_type) ==
    [name |-> name, type |-> account_type, balance |-> DecZero]

\* Account.debit; the balance given is the signal when the operation raises
Debit(account, amount) ==
    IF account.type \in DebitNormal
    THEN [account EXCEPT !.balance = DecAdd(@, amount)]
    ELSE [account EXCEPT !.balance = DecSub(@, amount)]

\* Account.credit
Credit(account, amount) ==
    IF account.type \in DebitNormal
    THEN [account EXCEPT !.balance = DecSub(@, amount)]
    ELSE [account EXCEPT !.balance = DecAdd(@, amount)]

(***************************************************************************)
(* Transactions.  An entry refers to its Account object by the object's    *)
(* position in the ledger's accounts list, which never changes.            *)
(***************************************************************************)
\* TransactionEntry(account, amount)
TransactionEntry(account, amount) == [account |-> account, amount |-> amount]

\* Transaction(date, description)
NewTransaction(date, description) ==
    [date |-> date, description |-> description, debits |-> <<>>, credits |-> <<>>]

\* Transaction.add_debit
AddDebit(transaction, entry) ==
    [transaction EXCEPT !.debits = Append(@, entry)]

\* Transaction.add_credit
AddCredit(transaction, entry) ==
    [transaction EXCEPT !.credits = Append(@, entry)]

Amounts(entries) == [i \in 1..Len(entries) |-> entries[i].amount]

\* Transaction.is_balanced: "balanced" or "unbalanced" as it returns True or
\* False, "InvalidOperation" when one of its sums or their comparison signals
BalanceCheck(transaction) ==
    LET equal(total_debits, total_credits) ==
            IF InvalidOperation \in {total_debits, total_credits} THEN "InvalidOperation"
            ELSE IF DecEq(total_debits, total_credits) THEN "balanced"
            ELSE "unbalanced"
    IN  equal(DecSum(Amounts(transaction.debits)), DecSum(Amounts(transaction.credits)))

\* the exception Transaction.is_balanced raises
IsBalancedExc(transaction) ==
    IF BalanceCheck(transaction) = "InvalidOperation" THEN "InvalidOperation" ELSE "none"

\* Transaction.is_balanced returns True
IsBalanced(transaction) == BalanceCheck(transaction) = "balanced"

\* a loop of Transaction.post: the entries applied one after another, with
\* the exception raised; an application that signals ends the loop and
\* leaves the balance as it was
RECURSIVE ApplyRun(_, _, _, _)
ApplyRun(accts, entries, i, credit_side) ==
    IF i > Len(entries) THEN [accounts |-> accts, exc |-> "none"]
    ELSE LET next(after) ==
                 IF after.balance = InvalidOperation
                 THEN [accounts |-> accts, exc |-> "InvalidOperation"]
                 ELSE ApplyRun([accts EXCEPT ![entries[i].account] = after], entries, i + 1,
                               credit_side)
         IN  next(IF credit_side
                  THEN Credit(accts[entries[i].account], entries[i].amount)
                  ELSE Debit(accts[entries[i].account], entries[i].amount))

\* the accounts the loop over the debits leaves
ApplyDebits(accts, entries, i) == ApplyRun(accts, entries, i, FALSE).accounts

\* the accounts the loop over the credits leaves
ApplyCredits(accts, entries, i) == ApplyRun(accts, entries, i, TRUE).accounts

\* the exception a loop of Transaction.post raises
ApplyExc(accts, entries, i, credit_side) == ApplyRun(accts, entries, i, credit_side).exc

\* Transaction.post: all debits, then all credits, up to the application
\* that raises
PostRun(accts, transaction) ==
    LET credits(debited) ==
            IF debited.exc # "none" THEN debited
            ELSE ApplyRun(debited.accounts, transaction.credits, 1, TRUE)
    IN  credits(ApplyRun(accts, transaction.debits, 1, FALSE))

\* the exception Transaction.post raises
PostExc(accts, transaction) == PostRun(accts, transaction).exc

\* the accounts Transaction.post leaves
Post(accts, transaction) == PostRun(accts, transaction).accounts

(***************************************************************************)
(* External records.  A field of a CSV row or of a JSON object is absent   *)
(* (the key is missing), null (python's None: a CSV row shorter than the   *)
(* header, a JSON null), a string that is a decimal numeral, or any other  *)
(* string.                                                                 *)
(***************************************************************************)
Absent == [tag |-> "absent"]

Null == [tag |-> "null"]

Str(s) == [tag |-> "str", s |-> s]

\* str(amount) for a Decimal: the numeral, sign and digits; the name of a
\* special value
DecimalStr(x) ==
    IF Kind(x) = "finite"
    THEN [tag |-> "num", sign |-> IF x.neg THEN "-" ELSE "", int |-> x.ip, frac |-> x.fr]
    ELSE Str((IF x.neg THEN <<"-">> ELSE <<>>)
             \o (IF x.special = "Infinity" THEN <<"I", "n", "f", "i", "n", "i", "t", "y">>
                 ELSE IF x.special = "NaN" THEN <<"N", "a", "N">>
                 ELSE <<"s", "N", "a", "N">>))

\* Decimal(text) for a numeral
ParseNumeral(f) ==
    [neg |-> f.sign = "-" /\ (f.int # 0 \/ f.frac # ZeroFrac), ip |-> f.int, fr |-> f.frac]

DigitChars == <<"0", "1", "2", "3", "4", "5", "6", "7", "8", "9">>

DigitOf(c) == (CHOOSE d \in 1..Len(DigitChars) : DigitChars[d] = c) - 1

\* int(t) for a string of digits, 0 for the empty string
RECURSIVE NatOfText(_, _, _)
NatOfText(t, i, acc) ==
    IF i > Len(t) THEN acc ELSE NatOfText(t, i + 1, acc * 10 + DigitOf(t[i]))

\* Decimal(s) for a string: whitespace around it and underscores are left
\* out; a sign, then digits with or without a point and an exponent, or
\* Inf, Infinity, NaN or sNaN in any case, the NaNs with or without digits.
\* Any other string signals (ConversionSyntax).
DecimalOfText(s) ==
    LET \* index of the first character c of x, 0 when there is none
        first(x, c) == IF \E i \in 1..Len(x) : x[i] = c
                       THEN CHOOSE i \in 1..Len(x) :
                               x[i] = c /\ \A j \in 1..(i - 1) : x[j] # c
                       ELSE 0
        digits(x) == \A i \in 1..Len(x) : \E d \in 1..Len(DigitChars) : DigitChars[d] = x[i]
        \* the value of the numeral: the digits d, the point after the
        \* first `point` of them
        record(neg, ip, fr) == [neg |-> neg /\ (ip # 0 \/ fr # ZeroFrac), ip |-> ip, fr |-> fr]
        value(neg, d, point) ==
            LET digit(k) == IF 1 <= k /\ k <= Len(d) THEN d[k] ELSE "0"
            IN  record(neg, NatOfText([k \in 1..point |-> digit(k)], 1, 0),
                       [k \in 1..FracDigits |-> DigitOf(digit(point + k))])
        numeral(neg, e, int, frac, edig, eneg) ==
            IF /\ digits(int)
               /\ digits(frac)
               /\ Len(int) + Len(frac) >= 1
               /\ e # 0 => (edig # <<>> /\ digits(edig))
            THEN value(neg, int \o frac,
                       Len(int) + (IF eneg THEN 0 - 1 ELSE 1) * NatOfText(edig, 1, 0))
            ELSE InvalidOperation
        pointed(neg, e, mant, edig, eneg, pt) ==
            numeral(neg, e,
                    IF pt = 0 THEN mant ELSE SubSeq(mant, 1, pt - 1),
                    IF pt = 0 THEN <<>> ELSE SubSeq(mant, pt + 1, Len(mant)),
                    edig, eneg)
        exponent(neg, e, mant, etxt, esgn) ==
            pointed(neg, e, mant, IF esgn THEN Tail(etxt) ELSE etxt,
                    esgn /\ etxt[1] = "-", first(mant, "."))
        split(neg, e, mant, etxt) ==
            exponent(neg, e, mant, etxt, etxt # <<>> /\ etxt[1] \in {"+", "-"})
        mantissa(neg, body, e) ==
            split(neg, e,
                  IF e = 0 THEN body ELSE SubSeq(body, 1, e - 1),
                  IF e = 0 THEN <<>> ELSE SubSeq(body, e + 1, Len(body)))
        unsigned(neg, body, low) ==
            IF low \in {<<"i", "n", "f">>, <<"i", "n", "f", "i", "n", "i", "t", "y">>}
            THEN Special(neg, "Infinity")
            ELSE IF Len(low) >= 3 /\ SubSeq(low, 1, 3) = <<"n", "a", "n">>
                    /\ digits(SubSeq(low, 4, Len(low)))
            THEN Special(neg, "NaN")
            ELSE IF Len(low) >= 4 /\ SubSeq(low, 1, 4) = <<"s", "n", "a", "n">>
                    /\ digits(SubSeq(low, 5, Len(low)))
            THEN Special(neg, "sNaN")
            ELSE mantissa(neg, body, first(low, "e"))
        lowered(neg, body) == unsigned(neg, body, Lower(body))
        signed(t, sgn) == lowered(sgn /\ t[1] = "-", IF sgn THEN Tail(t) ELSE t)
        stripped(t) == signed(t, t # <<>> /\ t[1] \in {"+", "-"})
    IN  stripped(SelectSeq(Strip(s), LAMBDA c : c # "_"))

\* Decimal(f) for a field that is a string
DecimalOf(f) == IF f.tag = "num" THEN ParseNumeral(f) ELSE DecimalOfText(f.s)

\* the exception Decimal(f) raises: TypeError for None,
\* decimal.InvalidOperation (an ArithmeticError, not a ValueError) for a
\* string that is no numeral and no special value, none for the others
DecimalExc(f) ==
    IF f.tag = "null" THEN "TypeError"
    ELSE IF DecimalOf(f) = InvalidOperation THEN "InvalidOperation"
    ELSE "none"

\* dict.get(key, default)
FieldGet(f, default) == IF f.tag = "absent" THEN default ELSE f

\* the dates the model writes and reads, with their ISO-8601 text
IsoTable ==
    << [text |-> "1397-01-01", date |-> [year |-> 1397, month |-> 1, day |-> 1]],
       [text |-> "1397-02-15", date |-> [year |-> 1397, month |-> 2, day |-> 15]] >>

IsIsoDate(s) == \E i \in 1..Len(IsoTable) : IsoTable[i].text = s

\* datetime.fromisoformat(s).date()
FromIsoFormat(s) == IsoTable[CHOOSE i \in 1..Len(IsoTable) : IsoTable[i].text = s].date

\* date.isoformat()
IsoFormat(d) == IsoTable[CHOOSE i \in 1..Len(IsoTable) : IsoTable[i].date = d].text

\* the exception datetime.fromisoformat(row['date']) raises; a numeral is
\* no date
DateExc(f) ==
    IF f.tag = "absent" THEN "KeyError"
    ELSE IF f.tag = "null" THEN "TypeError"
    ELSE IF f.tag = "num" \/ ~IsIsoDate(f.s) THEN "ValueError"
    ELSE "none"

\* the exception f.strip() raises
StripExc(f) == IF f.tag = "null" THEN "AttributeError" ELSE "none"

\* the first exception of a sequence of steps, in order
RECURSIVE FirstExcFrom(_, _)
FirstExcFrom(excs, i) ==
    IF i > Len(excs) THEN "none"
    ELSE IF excs[i] # "none" THEN excs[i]
    ELSE FirstExcFrom(excs, i + 1)

FirstExc(excs) == FirstExcFrom(excs, 1)

\* except (ValueError, KeyError)
Caught == {"ValueError", "KeyError"}

\* AccountType.<member>.name
TypeNames == <<"ASSET", "LIABILITY", "EQUITY", "REVENUE", "EXPENSE">>

TypeName(t) == TypeNames[t]

\* AccountType[name] succeeds
IsTypeName(f) == f.tag = "str" /\ \E t \in 1..Len(TypeNames) : TypeNames[t] = f.s

\* AccountType[name]
TypeByName(f) == CHOOSE t \in 1..Len(TypeNames) : TypeNames[t] = f.s

(***************************************************************************)
(* The ledger: its accounts list and its transaction log.  Each operation  *)
(* is a function from the ledger to the ledger it leaves, with what it     *)
(* returns or raises.                                                      *)
(***************************************************************************)
\* Ledger.__init__
NewLedger == [accounts |-> <<>>, transactions |-> <<>>]

\* Ledger.create_account
CreateAccount(L, name, account_type) ==
    [ledger  |-> [L EXCEPT !.accounts = Append(@, NewAccount(name, account_type))],
     account |-> Len(L.accounts) + 1]

\* a faulty variant of GetOrCreateAccount: an account is found by its name
\* and its type
GetOrCreateAccountOfType(L, name, account_type) ==
    LET found == {i \in 1..Len(L.accounts) :
                     L.accounts[i].name = name /\ L.accounts[i].type = account_type}
    IN  IF found # {}
        THEN [ledger |-> L, account |-> CHOOSE i \in found : \A j \in found : i <= j]
        ELSE CreateAccount(L, name, account_type)

\* a faulty variant of GetOrCreateAccount: the account found is given the
\* type asked for
GetOrCreateAccountRetyped(L, name, account_type) ==
    LET found == {i \in 1..Len(L.accounts) : L.accounts[i].name = name}
        first == CHOOSE i \in found : \A j \in found : i <= j
    IN  IF found # {}
        THEN [ledger  |-> [L EXCEPT !.accounts[first].type = account_type],
              account |-> first]
        ELSE CreateAccount(L, name, account_type)

\* Ledger.get_or_create_account
GetOrCreateAccount(L, name, account_type) ==
    LET found == {i \in 1..Len(L.accounts) : L.accounts[i].name = name}
    IN  IF found # {}
        THEN [ledger |-> L, account |-> CHOOSE i \in found : \A j \in found : i <= j]
        ELSE CreateAccount(L, name, account_type)

\* the exception the routing loop raises: entry.amount >= 0 signals for a NaN
RouteExc(entries) ==
    IF \E i \in 1..Len(entries) : Kind(entries[i].amount) \in {"NaN", "sNaN"}
    THEN "InvalidOperation" ELSE "none"

\* a faulty variant of RouteEntries: a zero amount is routed as a negative
\* one is
RECURSIVE RouteEntriesStrict(_, _, _, _)
RouteEntriesStrict(accts, entries, i, transaction) ==
    IF i > Len(entries) \/ RouteExc(SubSeq(entries, 1, i)) # "none" THEN transaction
    ELSE LET entry   == entries[i]
             account == accts[entry.account]
             abs_e   == TransactionEntry(entry.account, DecAbs(entry.amount))
         IN  IF (account.type \in DebitNormal) = (DecCmp(entry.amount, DecZero) > 0)
             THEN RouteEntriesStrict(accts, entries, i + 1, AddDebit(transaction, abs_e))
             ELSE RouteEntriesStrict(accts, entries, i + 1, AddCredit(transaction, abs_e))

\* the routing loop of Ledger.record_transaction: entries are
\* TransactionEntry(account, signed amount); the loop ends at an entry
\* whose comparison with 0 raises
RECURSIVE RouteEntries(_, _, _, _)
RouteEntries(accts, entries, i, transaction) ==
    IF i > Len(entries) \/ RouteExc(SubSeq(entries, 1, i)) # "none" THEN transaction
    ELSE LET entry   == entries[i]
             account == accts[entry.account]
             abs_e   == TransactionEntry(entry.account, DecAbs(entry.amount))
         IN  IF account.type \in DebitNormal
             THEN IF DecCmp(entry.amount, DecZero) >= 0
                  THEN RouteEntries(accts, entries, i + 1, AddDebit(transaction, entry))
                  ELSE RouteEntries(accts, entries, i + 1, AddCredit(transaction, abs_e))
             ELSE IF DecCmp(entry.amount, DecZero) >= 0
                  THEN RouteEntries(accts, entries, i + 1, AddCredit(transaction, entry))
                  ELSE RouteEntries(accts, entries, i + 1, AddDebit(transaction, abs_e))

\* a faulty variant of PostAndAppend: the entries are posted before the
\* balance is checked
PostAndAppendPostFirst(L, transaction) ==
    LET checked(posted, balance) ==
            IF posted.exc # "none" \/ balance = "InvalidOperation"
            THEN [ledger |-> [L EXCEPT !.accounts = posted.accounts],
                  exc    |-> "InvalidOperation"]
            ELSE IF balance = "unbalanced"
            THEN [ledger |-> [L EXCEPT !.accounts = posted.accounts], exc |-> "ValueError"]
            ELSE [ledger |-> [accounts     |-> posted.accounts,
                              transactions |-> Append(L.transactions, transaction)],
                  exc    |-> "none"]
    IN  checked(PostRun(L.accounts, transaction), BalanceCheck(transaction))

\* a faulty variant of PostAndAppend: the transaction is put at the head of
\* the log
PostAndPrepend(L, transaction) ==
    LET posted(p) ==
            IF p.exc # "none"
            THEN [ledger |-> [L EXCEPT !.accounts = p.accounts], exc |-> p.exc]
            ELSE [ledger |-> [accounts     |-> p.accounts,
                              transactions |-> <<transaction>> \o L.transactions],
                  exc    |-> "none"]
        checked(balance) ==
            IF balance = "InvalidOperation" THEN [ledger |-> L, exc |-> "InvalidOperation"]
            ELSE IF balance = "unbalanced" THEN [ledger |-> L, exc |-> "ValueError"]
            ELSE posted(PostRun(L.accounts, transaction))
    IN  checked(BalanceCheck(transaction))

\* the end of record_transaction and of each import record: check the
\* balance, post, append to the log; an exception of is_balanced leaves the
\* ledger as it was, an exception of post leaves the entries applied before it
PostAndAppend(L, transaction) ==
    LET posted(p) ==
            IF p.exc # "none"
            THEN [ledger |-> [L EXCEPT !.accounts = p.accounts], exc |-> p.exc]
            ELSE [ledger |-> [accounts     |-> p.accounts,
                              transactions |-> Append(L.transactions, transaction)],
                  exc    |-> "none"]
        checked(balance) ==
            IF balance = "InvalidOperation" THEN [ledger |-> L, exc |-> "InvalidOperation"]
            ELSE IF balance = "unbalanced" THEN [ledger |-> L, exc |-> "ValueError"]
            ELSE posted(PostRun(L.accounts, transaction))
    IN  checked(BalanceCheck(transaction))

\* Ledger.record_transaction
RecordTransaction(L, date, description, entries) ==
    IF RouteExc(entries) # "none" THEN [ledger |-> L, exc |-> RouteExc(entries)]
    ELSE PostAndAppend(L, RouteEntries(L.accounts, entries, 1,
                                       NewTransaction(date, description)))

(***************************************************************************)
(* CSV import.                                                             *)
(***************************************************************************)
\* the parsing statements of a row, in the order the code runs them
CsvParseExc(row) ==
    FirstExc(<< DateExc(row.date),
                IF row.description.tag = "absent" THEN "KeyError" ELSE "none",
                StripExc(FieldGet(row.debit_account, Str(<<>>))),
                DecimalExc(FieldGet(row.debit_amount, DecimalStr(DecZero))),
                StripExc(FieldGet(row.credit_account, Str(<<>>))),
                DecimalExc(FieldGet(row.credit_amount, DecimalStr(DecZero))),
                StripExc(FieldGet(row.credit_account_2, Str(<<>>))),
                IF row.credit_amount_2.tag \in {"absent", "null"}
                   \/ row.credit_amount_2 = Str(<<>>)
                THEN "none" ELSE DecimalExc(row.credit_amount_2) >>)

\* Decimal(row.get('credit_amount_2', '0')) if row.get('credit_amount_2')
\* else Decimal('0')
CreditAmount2(row) ==
    IF row.credit_amount_2.tag \in {"absent", "null"} \/ row.credit_amount_2 = Str(<<>>)
    THEN DecZero
    ELSE DecimalOf(row.credit_amount_2)

\* a faulty variant of CsvAddDebits: every debit account is given the whole
\* debit_amount
RECURSIVE CsvAddDebitsWhole(_, _, _, _, _)
CsvAddDebitsWhole(L, transaction, debit_accounts, debit_amount, i) ==
    IF i > Len(debit_accounts)
    THEN [ledger |-> L, transaction |-> transaction, exc |-> "none"]
    ELSE LET account_type == InferAccountType(debit_accounts[i])
             got          == GetOrCreateAccount(L, debit_accounts[i], account_type)
             entry        == TransactionEntry(got.account, debit_amount)
         IN  CsvAddDebitsWhole(got.ledger, AddDebit(transaction, entry),
                               debit_accounts, debit_amount, i + 1)

\* the debit loop of a row: every name resolved, one entry each of
\* debit_amount / len(debit_accounts); the loop ends when the division raises
RECURSIVE CsvAddDebits(_, _, _, _, _)
CsvAddDebits(L, transaction, debit_accounts, debit_amount, i) ==
    IF i > Len(debit_accounts)
    THEN [ledger |-> L, transaction |-> transaction, exc |-> "none"]
    ELSE LET account_type == InferAccountType(debit_accounts[i])
             got          == GetOrCreateAccount(L, debit_accounts[i], account_type)
             part         == DecDivInt(debit_amount, Len(debit_accounts))
             entry        == TransactionEntry(got.account, part)
         IN  IF part = InvalidOperation
             THEN [ledger |-> got.ledger, transaction |-> transaction,
                   exc |-> "InvalidOperation"]
             ELSE CsvAddDebits(got.ledger, AddDebit(transaction, entry),
                               debit_accounts, debit_amount, i + 1)

\* one credit pair of a row, applied when apply holds
CsvAddCredit(st, apply, name, amount) ==
    IF ~apply THEN st
    ELSE LET got == GetOrCreateAccount(st.ledger, name, InferAccountType(name))
         IN  [ledger      |-> got.ledger,
              transaction |-> AddCredit(st.transaction, TransactionEntry(got.account, amount)),
              exc         |-> "none"]

\* a faulty variant of ApplySecondCredit: the second pair is applied as the
\* first is, whatever its amount
ApplySecondCreditAnyAmount(credit_account_2, credit_amount_2) ==
    credit_account_2 # <<>>

\* the exception of: if credit_account_2 and credit_amount_2 > 0; the
\* amount is compared when the name is not empty, and a NaN signals
SecondCreditExc(credit_account_2, credit_amount_2) ==
    IF credit_account_2 # <<>> /\ Kind(credit_amount_2) \in {"NaN", "sNaN"}
    THEN "InvalidOperation" ELSE "none"

\* if credit_account_2 and credit_amount_2 > 0
ApplySecondCredit(credit_account_2, credit_amount_2) ==
    credit_account_2 # <<>> /\ DecCmp(credit_amount_2, DecZero) > 0

\* the body of the row loop up to the balance check: the row parsed, the
\* accounts resolved and the transaction built, or the exception that ended it
BuildCsvRow(L, row) ==
    LET \* the credit pairs, after the debit loop has left s1
        credits(s1, credit_account, credit_amount, credit_account_2, credit_amount_2) ==
            LET second(s2) ==
                    IF SecondCreditExc(credit_account_2, credit_amount_2) # "none"
                    THEN [ledger |-> s2.ledger,
                          exc    |-> SecondCreditExc(credit_account_2, credit_amount_2)]
                    ELSE CsvAddCredit(s2,
                                      ApplySecondCredit(credit_account_2, credit_amount_2),
                                      credit_account_2, credit_amount_2)
            IN  IF s1.exc # "none" THEN [ledger |-> s1.ledger, exc |-> s1.exc]
                ELSE second(CsvAddCredit(s1, credit_account # <<>>, credit_account,
                                         credit_amount))
        parsed(exc) ==
            IF exc # "none" THEN [ledger |-> L, exc |-> exc]
            ELSE LET trans_date     == FromIsoFormat(row.date.s)
                     description    == row.description
                     debit_accounts == SplitNames(FieldGet(row.debit_account, Str(<<>>)).s)
                     debit_amount   == DecimalOf(FieldGet(row.debit_amount,
                                                          DecimalStr(DecZero)))
                 IN  credits(CsvAddDebits(L, NewTransaction(trans_date, description),
                                          debit_accounts, debit_amount, 1),
                             Strip(FieldGet(row.credit_account, Str(<<>>)).s),
                             DecimalOf(FieldGet(row.credit_amount, DecimalStr(DecZero))),
                             Strip(FieldGet(row.credit_account_2, Str(<<>>)).s),
                             CreditAmount2(row))
    IN  parsed(CsvParseExc(row))

\* the rest of the body for what was built: an exception ends the body, a
\* transaction is checked, posted and appended
PostBuilt(b) ==
    IF "exc" \in DOMAIN b /\ b.exc # "none" THEN [ledger |-> b.ledger, exc |-> b.exc]
    ELSE PostAndAppend(b.ledger, b.transaction)

\* the body of the row loop of import_transactions_from_csv: the ledger it
\* leaves and the exception it ends with ("none" when the row is posted)
ImportCsvRow(L, row) == PostBuilt(BuildCsvRow(L, row))

\* the loop over the rows of a file: a caught exception skips the row, any
\* other ends the call.  log keeps, per row reached, the exception its
\* processing ended with ("none" when it was posted).
RECURSIVE ImportCsvLoop(_, _, _, _, _)
ImportCsvLoop(L, rows, i, count, log) ==
    IF i > Len(rows)
    THEN [ledger |-> L, raised |-> "none", count |-> count, log |-> log]
    ELSE LET next(r) ==
                 IF r.exc = "none"
                 THEN ImportCsvLoop(r.ledger, rows, i + 1, count + 1, Append(log, r.exc))
                 ELSE IF r.exc \in Caught
                 THEN ImportCsvLoop(r.ledger, rows, i + 1, count, Append(log, r.exc))
                 ELSE [ledger |-> r.ledger, raised |-> r.exc, count |-> count,
                       log |-> Append(log, r.exc)]
         IN  next(ImportCsvRow(L, rows[i]))

\* Ledger.import_transactions_from_csv on the rows of a file
ImportTransactionsFromCsv(L, rows) == ImportCsvLoop(L, rows, 1, 0, <<>>)

(***************************************************************************)
(* JSON import.                                                            *)
(***************************************************************************)
\* one debit or credit loop of a record: st carries the ledger, the
\* transaction and the exception that ended the loop
RECURSIVE JsonAddEntries(_, _, _, _)
JsonAddEntries(st, entries, i, credit_side) ==
    IF i > Len(entries) \/ st.exc # "none" THEN st
    ELSE LET e == entries[i]
         IN  IF ~IsTypeName(e.account_type) \/ e.account.tag = "absent"
             THEN [st EXCEPT !.exc = "KeyError"]
             ELSE LET name == IF e.account.tag = "null" THEN NoneName ELSE e.account.s
                      got == GetOrCreateAccount(st.ledger, name, TypeByName(e.account_type))
                      exc == IF e.amount.tag = "absent" THEN "KeyError"
                             ELSE DecimalExc(e.amount)
                      entry == TransactionEntry(got.account, DecimalOf(e.amount))
                  IN  IF exc # "none"
                      THEN [st EXCEPT !.ledger = got.ledger, !.exc = exc]
                      ELSE JsonAddEntries(
                              [ledger      |-> got.ledger,
                               transaction |-> IF credit_side
                                               THEN AddCredit(st.transaction, entry)
                                               ELSE AddDebit(st.transaction, entry),
                               exc         |-> "none"],
                              entries, i + 1, credit_side)

\* the body of the record loop up to the balance check
BuildJsonRecord(L, trans_dict) ==
    LET exc0 == FirstExc(<< DateExc(trans_dict.date),
                            IF trans_dict.description.tag = "absent"
                            THEN "KeyError" ELSE "none" >>)
    IN  IF exc0 # "none" THEN [ledger |-> L, exc |-> exc0]
        ELSE LET s0 == [ledger      |-> L,
                        transaction |-> NewTransaction(FromIsoFormat(trans_dict.date.s),
                                                       trans_dict.description),
                        exc         |-> "none"]
                 s1 == JsonAddEntries(s0, trans_dict.debits, 1, FALSE)
             IN  JsonAddEntries(s1, trans_dict.credits, 1, TRUE)

\* the body of the record loop of import_transactions_from_json
ImportJsonRecord(L, trans_dict) == PostBuilt(BuildJsonRecord(L, trans_dict))

\* the loop over the records of a file, as for the rows of a CSV file
RECURSIVE ImportJsonLoop(_, _, _, _, _)
ImportJsonLoop(L, transactions_data, i, count, log) ==
    IF i > Len(transactions_data)
    THEN [ledger |-> L, raised |-> "none", count |-> count, log |-> log]
    ELSE LET next(r) ==
                 IF r.exc = "none"
                 THEN ImportJsonLoop(r.ledger, transactions_data, i + 1, count + 1,
                                     Append(log, r.exc))
                 ELSE IF r.exc \in Caught
                 THEN ImportJsonLoop(r.ledger, transactions_data, i + 1, count,
                                     Append(log, r.exc))
                 ELSE [ledger |-> r.ledger, raised |-> r.exc, count |-> count,
                       log |-> Append(log, r.exc)]
         IN  next(ImportJsonRecord(L, transactions_data[i]))

\* Ledger.import_transactions_from_json on the list the file holds
ImportTransactionsFromJson(L, transactions_data) ==
    ImportJsonLoop(L, transactions_data, 1, 0, <<>>)

\* import_transactions_from_json on the value json.load gives: a list is
\* gone through record by record; an object gives its keys and a string its
\* characters, each a str on which ['date'] raises TypeError; a number, a
\* boolean and null cannot be iterated
ImportJsonDocument(L, doc) ==
    IF doc.tag = "list" THEN ImportTransactionsFromJson(L, doc.items)
    ELSE IF doc.tag \in {"object", "string"}
    THEN IF Len(doc.items) = 0
         THEN [ledger |-> L, raised |-> "none", count |-> 0, log |-> <<>>]
         ELSE [ledger |-> L, raised |-> "TypeError", count |-> 0, log |-> <<"TypeError">>]
    ELSE [ledger |-> L, raised |-> "TypeError", count |-> 0, log |-> <<>>]

(***************************************************************************)
(* Export.                                                                 *)
(***************************************************************************)
\* [entry.account.name for entry in transaction.debits]
AccountNames(accts, entries) == [i \in 1..Len(entries) |-> accts[entries[i].account].name]

\* what csv.DictWriter writes for a name: the empty string for None
CsvName(name) == IF name = NoneName THEN Str(<<>>) ELSE Str(name)

\* the exception ', '.join(...) raises for the idx-th transaction: a name
\* that is None is no str
CsvRowExc(L, idx) ==
    IF \E i \in 1..Len(L.transactions[idx].debits) :
           L.accounts[L.transactions[idx].debits[i].account].name = NoneName
    THEN "TypeError" ELSE "none"

\* the transactions export_transactions_to_csv writes a row for: all, or
\* those before the first whose row raises
CsvRowsWritten(L) ==
    IF \A idx \in 1..Len(L.transactions) : CsvRowExc(L, idx) = "none"
    THEN Len(L.transactions)
    ELSE (CHOOSE idx \in 1..Len(L.transactions) :
              /\ CsvRowExc(L, idx) # "none"
              /\ \A j \in 1..(idx - 1) : CsvRowExc(L, j) = "none") - 1

\* the row export_transactions_to_csv writes for the idx-th transaction
CsvRowOf(L, idx) ==
    LET transaction  == L.transactions[idx]
        total_debits == DecSum(Amounts(transaction.debits))
        credits      == transaction.credits
    IN  [id               |-> idx,
         date             |-> Str(IsoFormat(transaction.date)),
         description      |-> IF transaction.description.tag = "null"
                              THEN Str(<<>>) ELSE transaction.description,
         debit_account    |-> Str(JoinComma(AccountNames(L.accounts, transaction.debits))),
         debit_amount     |-> DecimalStr(total_debits),
         credit_account   |-> IF Len(credits) > 0
                              THEN CsvName(L.accounts[credits[1].account].name)
                              ELSE Str(<<>>),
         credit_amount    |-> IF Len(credits) > 0
                              THEN DecimalStr(credits[1].amount) ELSE DecimalStr(DecZero),
         credit_account_2 |-> IF Len(credits) > 1
                              THEN CsvName(L.accounts[credits[2].account].name)
                              ELSE Str(<<>>),
         credit_amount_2  |-> IF Len(credits) > 1
                              THEN DecimalStr(credits[2].amount) ELSE Str(<<>>)]

\* Ledger.export_transactions_to_csv: the rows written, the exception
\* raised and, when there is none, the count returned
ExportTransactionsToCsv(L) ==
    LET written(n) ==
            [rows   |-> [idx \in 1..n |-> CsvRowOf(L, idx)],
             raised |-> IF n < Len(L.transactions) THEN "TypeError" ELSE "none",
             count  |-> Len(L.transactions)]
    IN  written(CsvRowsWritten(L))

JsonEntriesOf(accts, entries) ==
    [i \in 1..Len(entries) |->
        [account      |-> IF accts[entries[i].account].name = NoneName
                          THEN Null ELSE Str(accts[entries[i].account].name),
         account_type |-> Str(TypeName(accts[entries[i].account].type)),
         amount       |-> DecimalStr(entries[i].amount)]]

\* the object export_transactions_to_json writes for the idx-th transaction
JsonDictOf(L, idx) ==
    LET transaction == L.transactions[idx]
    IN  [id          |-> idx,
         date        |-> Str(IsoFormat(transaction.date)),
         description |-> transaction.description,
         debits      |-> JsonEntriesOf(L.accounts, transaction.debits),
         credits     |-> JsonEntriesOf(L.accounts, transaction.credits)]

\* Ledger.export_transactions_to_json: the list written and the count
\* returned; a name that is None is written as null
ExportTransactionsToJson(L) ==
    [data   |-> [idx \in 1..Len(L.transactions) |-> JsonDictOf(L, idx)],
     raised |-> "none",
     count  |-> Len(L.transactions)]

(***************************************************************************)
(* Reports.  Each gives the totals it computes and the verdict it prints,  *)
(* with the ledger it leaves.                                              *)
(***************************************************************************)
\* the exception printing the line of an account raises: the line is
\* formatted with {account.name:<30}, a TypeError for a name that is None,
\* then with balance.quantize(Decimal('0.01')), which signals for an
\* infinite balance and for a signaling NaN and passes a quiet NaN on
LineExc(account) ==
    IF account.name = NoneName THEN "TypeError"
    ELSE IF Kind(account.balance) \in {"Infinity", "sNaN"} THEN "InvalidOperation"
    ELSE "none"

\* the loop of print_trial_balance over the accounts, up to the statement
\* that raises: balance > 0 signals for a NaN, quiet or signaling, before
\* anything of the account is printed
RECURSIVE TrialBalanceLoop(_, _, _, _)
TrialBalanceLoop(accts, i, total_debits, total_credits) ==
    IF i > Len(accts)
    THEN [total_debits |-> total_debits, total_credits |-> total_credits,
          raised |-> "none"]
    ELSE LET account == accts[i]
             balance == account.balance
             ended(exc) == [total_debits |-> total_debits,
                            total_credits |-> total_credits, raised |-> exc]
             line(sign) ==
                 IF sign = 0
                 THEN TrialBalanceLoop(accts, i + 1, total_debits, total_credits)
                 ELSE IF LineExc(account) # "none" THEN ended(LineExc(account))
                 ELSE IF (account.type \in DebitNormal) = (sign > 0)
                 THEN TrialBalanceLoop(accts, i + 1,
                                       DecAdd(total_debits, DecAbs(balance)), total_credits)
                 ELSE TrialBalanceLoop(accts, i + 1,
                                       total_debits, DecAdd(total_credits, DecAbs(balance)))
         IN  IF Kind(balance) \in {"NaN", "sNaN"} THEN ended("InvalidOperation")
             ELSE line(DecCmp(balance, DecZero))

\* Ledger.print_trial_balance
PrintTrialBalance(L) ==
    LET t == TrialBalanceLoop(L.accounts, 1, DecZero, DecZero)
    IN  [ledger        |-> L,
         raised        |-> t.raised,
         total_debits  |-> t.total_debits,
         total_credits |-> t.total_credits,
         balanced      |-> t.raised = "none" /\ DecEq(t.total_debits, t.total_credits)]

\* one loop of a statement over the accounts of a type, up to the statement
\* that raises: account.balance != 0 signals for a signaling NaN and holds
\* for a quiet one, the line is printed, the balance is added to the total
RECURSIVE TotalLoop(_, _, _, _)
TotalLoop(accts, account_type, i, total) ==
    IF i > Len(accts) THEN [total |-> total, raised |-> "none"]
    ELSE IF accts[i].type # account_type
    THEN TotalLoop(accts, account_type, i + 1, total)
    ELSE IF Kind(accts[i].balance) = "sNaN"
    THEN [total |-> total, raised |-> "InvalidOperation"]
    ELSE IF DecEq(accts[i].balance, DecZero)
    THEN TotalLoop(accts, account_type, i + 1, total)
    ELSE IF LineExc(accts[i]) # "none"
    THEN [total |-> total, raised |-> LineExc(accts[i])]
    ELSE TotalLoop(accts, account_type, i + 1, DecAdd(total, accts[i].balance))

\* the loop that follows the loop that ended with prev: it is not run, and
\* its total is the Decimal('0') it was given at the top, when an exception
\* has been raised
TotalAfter(prev, accts, account_type) ==
    IF prev.raised # "none" THEN [total |-> DecZero, raised |-> prev.raised]
    ELSE TotalLoop(accts, account_type, 1, DecZero)

\* Ledger.print_balance_sheet: the totals as the method leaves them, the
\* exception that ended it and the verdict it printed
PrintBalanceSheet(L) ==
    LET assets      == TotalLoop(L.accounts, ASSET, 1, DecZero)
        liabilities == TotalAfter(assets, L.accounts, LIABILITY)
        equity      == TotalAfter(liabilities, L.accounts, EQUITY)
    IN  [ledger            |-> L,
         raised            |-> equity.raised,
         total_assets      |-> assets.total,
         total_liabilities |-> liabilities.total,
         total_equity      |-> equity.total,
         balanced          |-> /\ equity.raised = "none"
                               /\ DecEq(assets.total,
                                        DecAdd(liabilities.total, equity.total))]

\* Ledger.print_income_statement: the totals as the method leaves them, the
\* exception that ended it, and total_revenue - total_expenses
PrintIncomeStatement(L) ==
    LET revenue  == TotalLoop(L.accounts, REVENUE, 1, DecZero)
        expenses == TotalAfter(revenue, L.accounts, EXPENSE)
    IN  [ledger         |-> L,
         raised         |-> expenses.raised,
         total_revenue  |-> revenue.total,
         total_expenses |-> expenses.total,
         net_income     |-> DecSub(revenue.total, expenses.total)]

(***************************************************************************)
(* Inputs of the model.                                                    *)
(***************************************************************************)
MaxAccounts == 3

MaxTx == 2

MaxEntries == 2

MaxAmount == 1

MaxRows == 2

NCash == <<"C", "a", "s", "h">>

NLoan == <<"L", "o", "a", "n">>

NRent == <<"R", "e", "n", "t">>

NFee == <<"F", "e", "e">>

NTax == <<"T", "a", "x">>

D1 == [year |-> 1397, month |-> 1, day |-> 1]

\* the (name, type) pairs create_account is called with; Cash is created
\* twice, as nothing in create_account forbids
AccountInputs ==
    { [name |-> NCash, type |-> ASSET],
      [name |-> NLoan, type |-> LIABILITY],
      [name |-> NCash, type |-> EQUITY] }

\* all sequences over S of length at most n
RECURSIVE SeqsUpTo(_, _)
SeqsUpTo(S, n) ==
    IF n = 0 THEN {<<>>}
    ELSE LET shorter == SeqsUpTo(S, n - 1)
         IN  shorter \cup {Append(s, x) : s \in {t \in shorter : Len(t) = n - 1}, x \in S}

\* the signed amounts record_transaction is called with: whole cents, not zero
AmountInputs == {DecFromInt(k) : k \in ((-MaxAmount)..MaxAmount) \ {0}}

\* the entry lists record_transaction is called with on n accounts
EntryInputs ==
    [n \in 0..MaxAccounts |->
        SeqsUpTo({TransactionEntry(a, amt) : a \in 1..n, amt \in AmountInputs}, MaxEntries)]

\* a CSV row with every column of the header present
CsvRow(date, debit_account, debit_amount, credit_account, credit_amount, credit_account_2, credit_amount_2) ==
    [date |-> date, description |-> Str("row"),
     debit_account |-> debit_account, debit_amount |-> debit_amount,
     credit_account |-> credit_account, credit_amount |-> credit_amount,
     credit_account_2 |-> credit_account_2, credit_amount_2 |-> credit_amount_2]

Iso1 == Str("1397-01-01")

Num(k) == DecimalStr(DecFromInt(k))

Empty == Str(<<>>)

NotANumber == Str(<<"a", "b", "c">>)

RowGood == CsvRow(Iso1, Str(NCash), Num(1), Str(NLoan), Num(1), Empty, Empty)

RowHalves ==
    CsvRow(Iso1, Str(JoinComma(<<NCash, NRent>>)), Num(1), Str(NLoan), Num(1), Empty, Empty)

\* 2 cents over three debit accounts, credited to the first of them
RowThirds ==
    CsvRow(Iso1, Str(JoinComma(<<NCash, NRent, NTax>>)), Num(2), Str(NCash), Num(2),
           Empty, Empty)

\* 1 cent over three debit accounts
RowThirdsOdd ==
    CsvRow(Iso1, Str(JoinComma(<<NCash, NRent, NTax>>)), Num(1), Str(NLoan), Num(1),
           Empty, Empty)

RowTwoCredits == CsvRow(Iso1, Str(NRent), Num(2), Str(NCash), Num(1), Str(NLoan), Num(1))

RowUnbalanced == CsvRow(Iso1, Str(NCash), Num(2), Str(NLoan), Num(1), Empty, Empty)

RowBadDate == CsvRow(Str("1397-13-45"), Str(NCash), Num(1), Str(NLoan), Num(1), Empty, Empty)

RowBadAmount == CsvRow(Iso1, Str(NCash), NotANumber, Str(NLoan), Num(1), Empty, Empty)

\* a row cut short after debit_account: the reader fills the rest with None
RowShort == CsvRow(Iso1, Str(NCash), Null, Null, Null, Null, Null)

RowNegative == CsvRow(Iso1, Str(NCash), Num(-1), Str(NLoan), Num(-1), Empty, Empty)

RowNoEntries == CsvRow(Iso1, Empty, Num(0), Empty, Num(0), Empty, Empty)

\* the rows of the files the general specification imports
CsvRows == {RowGood, RowThirds, RowUnbalanced, RowBadAmount}

JsonEntry(name, type_name, amount) ==
    [account |-> Str(name), account_type |-> Str(type_name), amount |-> amount]

JsonDict(date, debits, credits) ==
    [date |-> date, description |-> Str("rec"), debits |-> debits, credits |-> credits]

RecGood ==
    JsonDict(Iso1, <<JsonEntry(NCash, "ASSET", Num(1))>>,
                   <<JsonEntry(NLoan, "LIABILITY", Num(1))>>)

\* Cash named with another type than the account Cash has when it exists
RecOtherType ==
    JsonDict(Iso1, <<JsonEntry(NRent, "EXPENSE", Num(2))>>,
                   <<JsonEntry(NCash, "EQUITY", Num(2))>>)

RecUnbalanced ==
    JsonDict(Iso1, <<JsonEntry(NCash, "ASSET", Num(2))>>,
                   <<JsonEntry(NLoan, "LIABILITY", Num(1))>>)

RecBadType ==
    JsonDict(Iso1, <<JsonEntry(NCash, "ASSET", Num(1))>>,
                   <<JsonEntry(NLoan, "BOGUS", Num(1))>>)

RecBadAmount ==
    JsonDict(Iso1, <<JsonEntry(NCash, "ASSET", NotANumber)>>,
                   <<JsonEntry(NLoan, "LIABILITY", Num(1))>>)

RecBadDate ==
    JsonDict(Str("1397-13-45"), <<JsonEntry(NCash, "ASSET", Num(1))>>,
                                <<JsonEntry(NLoan, "LIABILITY", Num(1))>>)

RecNoDate ==
    JsonDict(Absent, <<JsonEntry(NCash, "ASSET", Num(1))>>,
                     <<JsonEntry(NLoan, "LIABILITY", Num(1))>>)

RecNoAmount ==
    JsonDict(Iso1, <<JsonEntry(NCash, "ASSET", Absent)>>,
                   <<JsonEntry(NLoan, "LIABILITY", Num(1))>>)

RecNoEntries == JsonDict(Iso1, <<>>, <<>>)

\* the records of the files the general specification imports
JsonRecords == {RecGood, RecOtherType, RecBadAmount, RecNoEntries}

(***************************************************************************)
(* The state machine.                                                      *)
(***************************************************************************)
VARIABLES
    accounts,      \* Ledger.accounts
    transactions,  \* Ledger.transactions
    call,          \* the call under examination, in the specifications that fix one
    result,        \* what that call last did: exception raised, value returned
    exported,      \* the file the last export wrote
    fresh          \* the fresh ledger an exported file was imported into

vars == <<accounts, transactions, call, result, exported, fresh>>

Ledger == [accounts |-> accounts, transactions |-> transactions]

\* no call examined, no result, no file, no fresh ledger yet
Nothing == [op |-> "none", kind |-> "none"]

Init ==
    /\ accounts = NewLedger.accounts
    /\ transactions = NewLedger.transactions
    /\ call = Nothing
    /\ result = Nothing
    /\ exported = Nothing
    /\ fresh = Nothing

\* the ledger a call leaves
Becomes(L) ==
    /\ accounts' = L.accounts
    /\ transactions' = L.transactions

\* the ledger a call leaves, within the bounds of the model
Leaves(L) ==
    /\ Len(L.accounts) <= MaxAccounts
    /\ Len(L.transactions) <= MaxTx
    /\ Becomes(L)

\* ledger.create_account(name, account_type)
DoCreateAccount ==
    \E a \in AccountInputs :
        /\ Leaves(CreateAccount(Ledger, a.name, a.type).ledger)
        /\ UNCHANGED <<call, result, exported, fresh>>

\* ledger.get_or_create_account(name, account_type)
DoGetOrCreateAccount ==
    \E a \in AccountInputs :
        /\ Leaves(GetOrCreateAccount(Ledger, a.name, a.type).ledger)
        /\ UNCHANGED <<call, result, exported, fresh>>

\* ledger.record_transaction(date, description, *entries)
DoRecordTransaction ==
    \E entries \in EntryInputs[Len(accounts)] :
        /\ Leaves(RecordTransaction(Ledger, D1, Str("txn"), entries).ledger)
        /\ UNCHANGED <<call, result, exported, fresh>>

\* ledger.import_transactions_from_csv(filename)
DoImportCsv ==
    \E rows \in SeqsUpTo(CsvRows, MaxRows) :
        /\ Leaves(ImportTransactionsFromCsv(Ledger, rows).ledger)
        /\ UNCHANGED <<call, result, exported, fresh>>

\* ledger.import_transactions_from_json(filename)
DoImportJson ==
    \E data \in SeqsUpTo(JsonRecords, MaxRows) :
        /\ Leaves(ImportTransactionsFromJson(Ledger, data).ledger)
        /\ UNCHANGED <<call, result, exported, fresh>>

Next ==
    \/ DoCreateAccount
    \/ DoGetOrCreateAccount
    \/ DoRecordTransaction
    \/ DoImportCsv
    \/ DoImportJson

Spec == Init /\ [][Next]_vars

(***************************************************************************)
(* One call under examination.  The call is drawn at the start and made    *)
(* once, on a ledger built by create_account and a first transaction; what *)
(* it raised and returned is kept in result, with the ledger it was made   *)
(* on.                                                                     *)
(***************************************************************************)
MaxCallEntries == 2

MaxCallAmount == 2

MaxCallRows == 2

MaxCallRecords == 2

\* the accounts create_account is called with, in this order: one per type
CallChart ==
    << [name |-> NCash, type |-> ASSET],
       [name |-> NLoan, type |-> LIABILITY],
       [name |-> NTax, type |-> EQUITY],
       [name |-> NFee, type |-> REVENUE],
       [name |-> NRent, type |-> EXPENSE] >>

\* signed whole-cent amounts, zero among them
CallAmounts == {DecFromInt(k) : k \in (-MaxCallAmount)..MaxCallAmount}

CallEntries ==
    SeqsUpTo({TransactionEntry(a, amt) : a \in 1..Len(CallChart), amt \in CallAmounts},
             MaxCallEntries)

\* the values json.load gives for the files imported: {}, an object with
\* keys, "", a string, a number, true, null, [] and a list of one record
JsonDocuments ==
    { [tag |-> "object", items |-> <<>>],
      [tag |-> "object", items |-> <<"date", "description">>],
      [tag |-> "string", items |-> <<>>],
      [tag |-> "string", items |-> <<"a", "b", "c">>],
      [tag |-> "number"],
      [tag |-> "boolean"],
      [tag |-> "null"],
      [tag |-> "list", items |-> <<>>],
      [tag |-> "list", items |-> <<RecGood>>] }

\* the names _infer_account_type is called with: the names of the
\* specification, names with keywords of two categories, names in capitals,
\* names that hold a keyword inside a word, names with none, names with a
\* capital that is not of A to Z
InferNames ==
    { <<"C", "a", "s", "h">>,
      <<"A", "c", "c", "o", "u", "n", "t", "s", " ", "P", "a", "y", "a", "b", "l", "e">>,
      <<"O", "w", "n", "e", "r", "'", "s", " ", "C", "a", "p", "i", "t", "a", "l">>,
      <<"I", "n", "t", "e", "r", "e", "s", "t", " ", "I", "n", "c", "o", "m", "e">>,
      <<"W", "a", "g", "e", "s">>,
      <<"M", "i", "s", "c", "e", "l", "l", "a", "n", "e", "o", "u", "s">>,
      <<"C", "A", "S", "H", " ", "L", "O", "A", "N">>,
      <<"L", "o", "a", "n", " ", "F", "e", "e">>,
      <<"F", "e", "e", " ", "E", "x", "p", "e", "n", "s", "e">>,
      <<"I", "s", "l", "a", "n", "d", " ", "D", "e", "b", "t">>,
      <<"R", "e", "n", "t", " ", "I", "n", "c", "o", "m", "e">>,
      <<"P", "a", "r", "e", "n", "t">>,
      <<"O", "w", "n", "e", "r", " ", "W", "a", "g", "e", "s">>,
      <<"R", "e", "t", "a", "i", "n", "e", "d", " ", "E", "a", "r", "n", "i", "n", "g", "s">>,
      <<"S", "a", "l", "e", "s", " ", "T", "a", "x">>,
      <<"T", "a", "x">>,
      <<"É", "Q", "U", "I", "T", "Y">>,
      <<"É", "x", "p", "e", "n", "s", "e">>,
      <<>> }

AllCsvRows ==
    {RowGood, RowHalves, RowThirds, RowThirdsOdd, RowTwoCredits, RowUnbalanced,
     RowBadDate, RowBadAmount, RowShort, RowNegative, RowNoEntries}

\* one-row files that differ in their credit pairs: Cash is debited 1; the
\* first credit account is Loan or empty, the second Fee, empty or a space;
\* the amounts are positive, zero or negative, and the second amount may be
\* empty, None (the row ends before it) or without a column in the header
CreditPairRows ==
    {CsvRow(Iso1, Str(NCash), Num(1), a1, m1, a2, m2) :
        a1 \in {Str(NLoan), Empty},
        m1 \in {Num(1), Num(0), Num(-1)},
        a2 \in {Str(NFee), Empty, Str(<<" ">>)},
        m2 \in {Num(1), Num(0), Num(-1), Empty, Null, Absent}}

AllJsonRecords ==
    {RecGood, RecOtherType, RecUnbalanced, RecBadType, RecBadAmount, RecBadDate,
     RecNoDate, RecNoAmount, RecNoEntries}

\* amount texts that are not plain numerals: the special values Decimal()
\* reads, and a numeral written with padding (blanks; a vertical tab and a
\* no-break space) and with an exponent
SpecialAmounts ==
    {DecimalStr(Special(FALSE, "Infinity")), DecimalStr(Special(TRUE, "Infinity")),
     DecimalStr(Special(FALSE, "NaN")), DecimalStr(Special(FALSE, "sNaN")),
     Str(<<" ", "1", " ">>), Str(<<"", "1", " ">>), Str(<<"1", "e", "0">>)}

RowInfinity ==
    CsvRow(Iso1, Str(NCash), DecimalStr(Special(FALSE, "Infinity")),
           Str(NLoan), DecimalStr(Special(FALSE, "Infinity")), Empty, Empty)

\* Loan debited and Cash credited with Infinity
RowInfinityBack ==
    CsvRow(Iso1, Str(NLoan), DecimalStr(Special(FALSE, "Infinity")),
           Str(NCash), DecimalStr(Special(FALSE, "Infinity")), Empty, Empty)

\* names written with tabs and a line feed around them
RowTabs ==
    CsvRow(Iso1, Str(<<"\t">> \o NCash \o <<",", "\t">> \o NRent \o <<"\n">>), Num(2),
           Str(NLoan \o <<"\t">>), Num(2), Empty, Empty)

\* names written with a no-break space, a separator and a next line around
\* them
RowNoBreak ==
    CsvRow(Iso1, Str(NCash \o <<" ", ",", "">> \o NRent), Num(2),
           Str(<<"">> \o NLoan), Num(2), Empty, Empty)

\* files of rows with such amounts and names: Cash is debited and Loan or
\* Cash credited, or Fee is the second credit account; a row follows one
\* that has left Cash and Loan with an infinite balance
SpecialCsvFiles ==
    {<<CsvRow(Iso1, Str(NCash), m1, Str(c), m2, Empty, Empty)>> :
        c \in {NLoan, NCash}, m1 \in SpecialAmounts \cup {Num(1)},
        m2 \in SpecialAmounts \cup {Num(1)}}
    \cup {<<CsvRow(Iso1, Str(NCash), Num(1), Str(NLoan), Num(1), Str(NFee), m)>> :
              m \in SpecialAmounts}
    \cup {<<RowTabs>>, <<RowNoBreak>>}
    \cup {<<RowInfinity, r>> : r \in {RowGood, RowInfinity, RowInfinityBack}}

\* a record whose debit entry has "account": null
RecNullAccount ==
    JsonDict(Iso1, <<[account |-> Null, account_type |-> Str("ASSET"), amount |-> Num(1)]>>,
                   <<JsonEntry(NLoan, "LIABILITY", Num(1))>>)

\* files of one record with such amounts, and files of records with an
\* account that is null
SpecialJsonFiles ==
    {<<JsonDict(Iso1, <<JsonEntry(NCash, "ASSET", m1)>>,
                      <<JsonEntry(c, "LIABILITY", m2)>>)>> :
        c \in {NLoan, NCash}, m1 \in SpecialAmounts \cup {Num(1)},
        m2 \in SpecialAmounts \cup {Num(1)}}
    \cup {<<RecNullAccount>>, <<RecNullAccount, RecNullAccount>>, <<RecNullAccount, RecGood>>}

Calls ==
    {[op |-> "record", entries |-> e] : e \in CallEntries}
    \cup {[op |-> "csv", rows |-> f] : f \in SeqsUpTo(AllCsvRows, MaxCallRows)}
    \cup {[op |-> "csv", rows |-> <<r>>] : r \in CreditPairRows}
    \cup {[op |-> "csv", rows |-> f] : f \in SpecialCsvFiles}
    \cup {[op |-> "json", data |-> f] : f \in SpecialJsonFiles}
    \cup {[op |-> "json", data |-> f] : f \in SeqsUpTo(AllJsonRecords, MaxCallRecords)}
    \cup {[op |-> "infer", name |-> n] : n \in InferNames}
    \cup {[op |-> "json_document", doc |-> d] : d \in JsonDocuments}
    \cup {[op |-> "get_or_create", name |-> n, type |-> t] :
              n \in {NCash, NLoan, <<"c", "a", "s", "h">>, <<"C", "a", "s", "h", " ">>,
                     <<"B", "a", "n", "k">>},
              t \in AccountType}

InitCall ==
    /\ accounts = NewLedger.accounts
    /\ transactions = NewLedger.transactions
    /\ call \in Calls
    /\ result = Nothing
    /\ exported = Nothing
    /\ fresh = Nothing

\* ledger.create_account for the next account of the chart
CreateChartAccount ==
    /\ result = Nothing
    /\ Len(accounts) < Len(CallChart)
    /\ LET a == CallChart[Len(accounts) + 1]
       IN  accounts' = CreateAccount(Ledger, a.name, a.type).ledger.accounts
    /\ UNCHANGED <<transactions, call, result, exported, fresh>>

\* the first transaction: 1 cent borrowed, Cash and Loan both increased
SeedEntries == <<TransactionEntry(1, DecFromInt(1)), TransactionEntry(2, DecFromInt(1))>>

\* ledger.record_transaction for the first transaction
SeedTransaction ==
    /\ result = Nothing
    /\ transactions = <<>>
    /\ Len(accounts) >= 2
    /\ Becomes(RecordTransaction(Ledger, D1, Str("seed"), SeedEntries).ledger)
    /\ UNCHANGED <<call, result, exported, fresh>>

\* record_transaction has ended with r, having built transaction
RecordExecuted(r, transaction) ==
    /\ Becomes(r.ledger)
    /\ result' = [op |-> "record", before |-> Ledger, raised |-> r.exc,
                  transaction |-> transaction]

\* an import has ended with r
ImportExecuted(op, r) ==
    /\ Becomes(r.ledger)
    /\ result' = [op |-> op, before |-> Ledger, raised |-> r.raised,
                  count |-> r.count, log |-> r.log]

\* the call record_transaction(date, description, *call.entries)
ExecRecord ==
    /\ result = Nothing
    /\ call.op = "record"
    /\ \A i \in 1..Len(call.entries) : call.entries[i].account <= Len(accounts)
    /\ RecordExecuted(RecordTransaction(Ledger, D1, Str("txn"), call.entries),
                      RouteEntries(accounts, call.entries, 1, NewTransaction(D1, Str("txn"))))
    /\ UNCHANGED <<call, exported, fresh>>

\* the call import_transactions_from_csv on the file call.rows
ExecImportCsv ==
    /\ result = Nothing
    /\ call.op = "csv"
    /\ ImportExecuted("csv", ImportTransactionsFromCsv(Ledger, call.rows))
    /\ UNCHANGED <<call, exported, fresh>>

\* the call import_transactions_from_json on the file call.data
ExecImportJson ==
    /\ result = Nothing
    /\ call.op = "json"
    /\ ImportExecuted("json", ImportTransactionsFromJson(Ledger, call.data))
    /\ UNCHANGED <<call, exported, fresh>>

\* the call import_transactions_from_json on a file that holds call.doc
ExecImportJsonDocument ==
    /\ result = Nothing
    /\ call.op = "json_document"
    /\ ImportExecuted("json_document", ImportJsonDocument(Ledger, call.doc))
    /\ UNCHANGED <<call, exported, fresh>>

\* the call _infer_account_type(call.name)
ExecInfer ==
    /\ result = Nothing
    /\ call.op = "infer"
    /\ result' = [op |-> "infer", before |-> Ledger, type |-> InferAccountType(call.name)]
    /\ UNCHANGED <<accounts, transactions, call, exported, fresh>>

\* ledger.create_account('Cash', EQUITY) after the chart, on the ledgers
\* get_or_create_account is called on: a second account named Cash
CreateSecondCash ==
    /\ result = Nothing
    /\ call.op = "get_or_create"
    /\ Len(accounts) = Len(CallChart)
    /\ accounts' = CreateAccount(Ledger, NCash, EQUITY).ledger.accounts
    /\ UNCHANGED <<transactions, call, result, exported, fresh>>

\* the call get_or_create_account(call.name, call.type), and a second call
\* with the same name and any type; result keeps the account each returned
ExecGetOrCreate ==
    /\ call.op = "get_or_create"
    /\ \/ /\ result = Nothing
          /\ LET r == GetOrCreateAccount(Ledger, call.name, call.type)
             IN  /\ Becomes(r.ledger)
                 /\ result' = [op |-> "get_or_create", before |-> Ledger, calls |-> 1,
                               account |-> r.account, again |-> 0]
       \/ /\ result.op = "get_or_create"
          /\ result.calls = 1
          /\ \E t \in AccountType :
                LET r == GetOrCreateAccount(Ledger, call.name, t)
                IN  /\ Becomes(r.ledger)
                    /\ result' = [result EXCEPT !.calls = 2, !.again = r.account]
    /\ UNCHANGED <<call, exported, fresh>>

NextCall ==
    \/ CreateChartAccount
    \/ CreateSecondCash
    \/ ExecGetOrCreate
    \/ SeedTransaction
    \/ ExecRecord
    \/ ExecImportCsv
    \/ ExecImportJson
    \/ ExecInfer
    \/ ExecImportJsonDocument

SpecCall == InitCall /\ [][NextCall]_vars

(***************************************************************************)
(* The steps of one call.  The call of InitCall is gone through statement  *)
(* by statement: each row, record or entry list is built, checked, posted  *)
(* entry by entry and appended.  result holds where the call is: pc, the   *)
(* item k, the transaction built, the entry i to apply next, the accounts  *)
(* as is_balanced saw them, the count and the exception raised.            *)
(***************************************************************************)
\* what the try block builds for item k of call c on L: a row or a record
\* of a file, or the entries of record_transaction
BuildItem(L, c, k) ==
    IF c.op = "csv" THEN BuildCsvRow(L, c.rows[k])
    ELSE IF c.op = "json" THEN BuildJsonRecord(L, c.data[k])
    ELSE [ledger      |-> L,
          transaction |-> RouteEntries(L.accounts, c.entries, 1,
                                       NewTransaction(D1, Str("txn"))),
          exc         |-> RouteExc(c.entries)]

\* exc is raised at item result.k: an import skips the item when its except
\* clause catches exc; otherwise the call ends with exc
Raised(exc) ==
    IF call.op # "record" /\ exc \in Caught
    THEN [result EXCEPT !.pc = "loop", !.k = @ + 1]
    ELSE [result EXCEPT !.pc = "done", !.raised = exc]

\* the try block has built b
Built(b) ==
    /\ Becomes(b.ledger)
    /\ result' = IF "exc" \in DOMAIN b /\ b.exc # "none" THEN Raised(b.exc)
                 ELSE [result EXCEPT !.pc = "check", !.transaction = b.transaction]

\* the call is entered: count = 0
StepEnter ==
    /\ result = Nothing
    /\ call.op \in {"record", "csv", "json"}
    /\ call.op = "record" =>
          \A i \in 1..Len(call.entries) : call.entries[i].account <= Len(accounts)
    /\ result' = [op |-> "steps", pc |-> "loop", k |-> 1, i |-> 0,
                  transaction |-> NewTransaction(D1, Str("")), checked |-> <<>>,
                  count |-> 0, raised |-> "none", before |-> Ledger]
    /\ UNCHANGED <<accounts, transactions, call, exported, fresh>>

\* for row in reader / for trans_dict in transactions_data, and the
\* statements that build the transaction; record_transaction builds once
StepBuild ==
    /\ result.op = "steps"
    /\ result.pc = "loop"
    /\ IF result.k > (IF call.op = "csv" THEN Len(call.rows)
                      ELSE IF call.op = "json" THEN Len(call.data) ELSE 1)
       THEN /\ result' = [result EXCEPT !.pc = "done"]
            /\ UNCHANGED <<accounts, transactions>>
       ELSE Built(BuildItem(Ledger, call, result.k))
    /\ UNCHANGED <<call, exported, fresh>>

\* a faulty variant of StepCheck: the transaction is posted whether it is
\* balanced or not
StepCheckSkipped ==
    /\ result.op = "steps"
    /\ result.pc = "check"
    /\ result' = [result EXCEPT !.pc = "debits", !.i = 1, !.checked = accounts]
    /\ UNCHANGED <<accounts, transactions, call, exported, fresh>>

\* if not transaction.is_balanced(): raise ValueError(...)
StepCheck ==
    /\ result.op = "steps"
    /\ result.pc = "check"
    /\ result' = IF IsBalancedExc(result.transaction) # "none"
                 THEN Raised(IsBalancedExc(result.transaction))
                 ELSE IF IsBalanced(result.transaction)
                 THEN [result EXCEPT !.pc = "debits", !.i = 1, !.checked = accounts]
                 ELSE Raised("ValueError")
    /\ UNCHANGED <<accounts, transactions, call, exported, fresh>>

\* Transaction.post: for entry in self.debits: entry.account.debit(entry.amount)
StepDebit ==
    /\ result.op = "steps"
    /\ result.pc = "debits"
    /\ IF result.i <= Len(result.transaction.debits)
       THEN LET entry == result.transaction.debits[result.i]
                after == Debit(accounts[entry.account], entry.amount)
            IN  IF after.balance = InvalidOperation
                THEN /\ accounts' = accounts
                     /\ result' = Raised("InvalidOperation")
                ELSE /\ accounts' = [accounts EXCEPT ![entry.account] = after]
                     /\ result' = [result EXCEPT !.i = @ + 1]
       ELSE /\ accounts' = accounts
            /\ result' = [result EXCEPT !.pc = "credits", !.i = 1]
    /\ UNCHANGED <<transactions, call, exported, fresh>>

\* Transaction.post: for entry in self.credits: entry.account.credit(entry.amount)
StepCredit ==
    /\ result.op = "steps"
    /\ result.pc = "credits"
    /\ IF result.i <= Len(result.transaction.credits)
       THEN LET entry == result.transaction.credits[result.i]
                after == Credit(accounts[entry.account], entry.amount)
            IN  IF after.balance = InvalidOperation
                THEN /\ accounts' = accounts
                     /\ result' = Raised("InvalidOperation")
                ELSE /\ accounts' = [accounts EXCEPT ![entry.account] = after]
                     /\ result' = [result EXCEPT !.i = @ + 1]
       ELSE /\ accounts' = accounts
            /\ result' = [result EXCEPT !.pc = "append"]
    /\ UNCHANGED <<transactions, call, exported, fresh>>

\* self.transactions.append(transaction); count += 1
StepAppend ==
    /\ result.op = "steps"
    /\ result.pc = "append"
    /\ transactions' = Append(transactions, result.transaction)
    /\ result' = [result EXCEPT !.pc = "loop", !.k = @ + 1, !.count = @ + 1]
    /\ UNCHANGED <<accounts, call, exported, fresh>>

NextSteps ==
    \/ CreateChartAccount
    \/ SeedTransaction
    \/ StepEnter
    \/ StepBuild
    \/ StepCheck
    \/ StepDebit
    \/ StepCredit
    \/ StepAppend

SpecSteps == InitCall /\ [][NextSteps]_vars

(***************************************************************************)
(* Two posting operations on one ledger.  Each is a record_transaction     *)
(* call or the import of a one-row file; the steps of the two are taken in *)
(* any order, unless a single writer guards the ledger, who lets an        *)
(* operation begin only when the other is not under way.  A step is what   *)
(* an operation does between two accesses to the ledger: the search of     *)
(* get_or_create_account, the append of create_account, one Account.debit  *)
(* or Account.credit application, the append to the log.  result holds,    *)
(* per operation, where it is: pc, the transaction built so far, the       *)
(* account name or the entry i that is next, and the exception that ended  *)
(* it.                                                                     *)
(***************************************************************************)
\* the operations: Cash and Loan increased by 1; Rent paid from Cash; an
\* entry list that is not balanced; a row with two credit pairs; the row of
\* 2 cents over three debit accounts
TwoItems ==
    { [op |-> "record", entries |-> <<TransactionEntry(1, DecFromInt(1)),
                                      TransactionEntry(2, DecFromInt(1))>>],
      [op |-> "record", entries |-> <<TransactionEntry(5, DecFromInt(2)),
                                      TransactionEntry(1, DecFromInt(-2))>>],
      [op |-> "record", entries |-> <<TransactionEntry(1, DecFromInt(1))>>],
      [op |-> "csv", rows |-> <<RowTwoCredits>>],
      [op |-> "csv", rows |-> <<RowThirds>>] }

\* a ledger, two operations to be made on it, with or without a single writer
InitTwo ==
    /\ accounts = NewLedger.accounts
    /\ transactions = NewLedger.transactions
    /\ call \in {[op |-> "two", writer |-> w, items |-> <<a, b>>] :
                    w \in {"single", "none"}, a \in TwoItems, b \in TwoItems}
    /\ result = Nothing
    /\ exported = Nothing
    /\ fresh = Nothing

\* where the two operations are; neither has begun while result is empty
TwoFrames ==
    IF result = Nothing
    THEN [j \in 1..2 |-> [pc |-> "idle", i |-> 0,
                          transaction |-> NewTransaction(D1, Str("")), raised |-> "none"]]
    ELSE result.frames

\* the operation has begun and has not ended
InProgress(frame) == frame.pc \notin {"idle", "done"}

\* the get_or_create_account calls a parsed row leads to, in the order the
\* code makes them, each with the side and the amount of the entry added
\* after it: one per debit account with debit_amount / len(debit_accounts),
\* one for credit_account when it is not empty, one for credit_account_2
\* when it is not empty and credit_amount_2 > 0.  The division is made after
\* the account of the first debit entry is resolved; when it raises, that
\* call is the last.
CsvCalls(row) ==
    LET debit_accounts   == SplitNames(FieldGet(row.debit_account, Str(<<>>)).s)
        debit_amount     == DecimalOf(FieldGet(row.debit_amount, DecimalStr(DecZero)))
        credit_account   == Strip(FieldGet(row.credit_account, Str(<<>>)).s)
        credit_amount    == DecimalOf(FieldGet(row.credit_amount, DecimalStr(DecZero)))
        credit_account_2 == Strip(FieldGet(row.credit_account_2, Str(<<>>)).s)
        credit_amount_2  == CreditAmount2(row)
        part             == DecDivInt(debit_amount, Len(debit_accounts))
        debits           == [n \in 1..Len(debit_accounts) |->
                                [name |-> debit_accounts[n], credit |-> FALSE,
                                 amount |-> part]]
        first            == IF credit_account = <<>> THEN <<>>
                            ELSE <<[name |-> credit_account, credit |-> TRUE,
                                    amount |-> credit_amount]>>
        second           == IF SecondCreditExc(credit_account_2, credit_amount_2) = "none"
                               /\ ApplySecondCredit(credit_account_2, credit_amount_2)
                            THEN <<[name |-> credit_account_2, credit |-> TRUE,
                                    amount |-> credit_amount_2]>>
                            ELSE <<>>
    IN  IF debit_accounts # <<>> /\ part = InvalidOperation THEN <<debits[1]>>
        ELSE debits \o first \o second

\* the exception raised once the calls of a row are made: that of
\* credit_amount_2 > 0
CsvCallsExc(row) ==
    SecondCreditExc(Strip(FieldGet(row.credit_account_2, Str(<<>>)).s), CreditAmount2(row))

\* the frame of an operation whose transaction is built: is_balanced is
\* called, and an exception or a transaction that is not balanced ends the
\* operation
TwoChecked(frame, transaction, exc) ==
    IF exc # "none"
    THEN [frame EXCEPT !.pc = "done", !.raised = exc]
    ELSE IF IsBalancedExc(transaction) # "none"
    THEN [frame EXCEPT !.pc = "done", !.raised = IsBalancedExc(transaction)]
    ELSE IF ~IsBalanced(transaction)
    THEN [frame EXCEPT !.pc = "done", !.raised = "ValueError"]
    ELSE [pc |-> "debits", i |-> 1, transaction |-> transaction, raised |-> "none"]

\* the frame of an import once get_or_create_account has returned account
\* for the call c: the entry is added to its side, unless its amount raises
TwoResolved(frame, c, account) ==
    IF c.amount = InvalidOperation
    THEN [frame EXCEPT !.pc = "done", !.raised = "InvalidOperation"]
    ELSE [frame EXCEPT
             !.pc = "resolve",
             !.i = @ + 1,
             !.transaction = IF c.credit
                             THEN AddCredit(@, TransactionEntry(account, c.amount))
                             ELSE AddDebit(@, TransactionEntry(account, c.amount))]

\* an operation begins.  record_transaction routes its entries and calls
\* is_balanced, which reads nothing that another operation writes; an import
\* parses its row and is about to resolve the first account name
TwoBegin ==
    /\ \E j \in 1..2 :
          LET item  == call.items[j]
              frame == TwoFrames[j]
          IN  /\ frame.pc = "idle"
              /\ call.writer = "single" => ~InProgress(TwoFrames[3 - j])
              /\ item.op = "record" =>
                    \A i \in 1..Len(item.entries) : item.entries[i].account <= Len(accounts)
              /\ result' =
                    [op |-> "two",
                     frames |-> [TwoFrames EXCEPT ![j] =
                        IF item.op = "record"
                        THEN TwoChecked(frame,
                                        RouteEntries(accounts, item.entries, 1,
                                                     NewTransaction(D1, Str("txn"))),
                                        RouteExc(item.entries))
                        ELSE IF CsvParseExc(item.rows[1]) # "none"
                        THEN [frame EXCEPT !.pc = "done",
                                           !.raised = CsvParseExc(item.rows[1])]
                        ELSE [pc |-> "resolve", i |-> 1,
                              transaction |-> NewTransaction(
                                                 FromIsoFormat(item.rows[1].date.s),
                                                 item.rows[1].description),
                              raised |-> "none"]]]
    /\ UNCHANGED <<accounts, transactions, call, exported, fresh>>

\* the search of get_or_create_account for the next account name of an
\* import: the first account of that name is returned and the entry added;
\* with no such account, create_account is about to be called.  After the
\* last name the transaction is checked.
TwoLookup ==
    /\ result.op = "two"
    /\ \E j \in 1..2 :
          LET frame == result.frames[j]
              row   == call.items[j].rows[1]
              calls == CsvCalls(row)
              found == {a \in 1..Len(accounts) : accounts[a].name = calls[frame.i].name}
          IN  /\ frame.pc = "resolve"
              /\ result' = [result EXCEPT !.frames[j] =
                    IF frame.i > Len(calls)
                    THEN TwoChecked(frame, frame.transaction, CsvCallsExc(row))
                    ELSE IF found = {} THEN [frame EXCEPT !.pc = "create"]
                    ELSE TwoResolved(frame, calls[frame.i],
                                     CHOOSE a \in found : \A b \in found : a <= b)]
    /\ UNCHANGED <<accounts, transactions, call, exported, fresh>>

\* create_account, called by get_or_create_account after its search found
\* no account of the name: the account is appended, whatever the accounts
\* list has become since the search
TwoCreate ==
    /\ result.op = "two"
    /\ \E j \in 1..2 :
          LET frame == result.frames[j]
              c     == CsvCalls(call.items[j].rows[1])[frame.i]
              made  == CreateAccount(Ledger, c.name, InferAccountType(c.name))
          IN  /\ frame.pc = "create"
              /\ accounts' = made.ledger.accounts
              /\ result' = [result EXCEPT !.frames[j] = TwoResolved(frame, c, made.account)]
    /\ UNCHANGED <<transactions, call, exported, fresh>>

\* the next step of Transaction.post for an operation: one debit entry
\* applied, or, the debits done, one credit entry; after the last the
\* transaction is appended to the log
TwoPost ==
    /\ result.op = "two"
    /\ \E j \in 1..2 :
          LET frame == result.frames[j]
              t     == frame.transaction
              entry == IF frame.pc = "debits" THEN t.debits[frame.i] ELSE t.credits[frame.i]
              after == IF frame.pc = "debits"
                       THEN Debit(accounts[entry.account], entry.amount)
                       ELSE Credit(accounts[entry.account], entry.amount)
          IN  /\ frame.pc \in {"debits", "credits"}
              /\ IF frame.pc = "debits" /\ frame.i > Len(t.debits)
                 THEN /\ UNCHANGED <<accounts, transactions>>
                      /\ result' = [result EXCEPT !.frames[j].pc = "credits",
                                                  !.frames[j].i = 1]
                 ELSE IF frame.i <= Len(IF frame.pc = "debits" THEN t.debits ELSE t.credits)
                 THEN IF after.balance = InvalidOperation
                      THEN /\ UNCHANGED <<accounts, transactions>>
                           /\ result' = [result EXCEPT !.frames[j].pc = "done",
                                            !.frames[j].raised = "InvalidOperation"]
                      ELSE /\ accounts' = [accounts EXCEPT ![entry.account] = after]
                           /\ transactions' = transactions
                           /\ result' = [result EXCEPT !.frames[j].i = @ + 1]
                 ELSE /\ accounts' = accounts
                      /\ transactions' = Append(transactions, t)
                      /\ result' = [result EXCEPT !.frames[j].pc = "done"]
    /\ UNCHANGED <<call, exported, fresh>>

NextTwo ==
    \/ CreateChartAccount
    \/ TwoBegin
    \/ TwoLookup
    \/ TwoCreate
    \/ TwoPost

SpecTwo == InitTwo /\ [][NextTwo]_vars

(***************************************************************************)
(* Round trips.  A ledger is built by create_account, record_transaction   *)
(* and the imports, its log is exported, and the exported file is imported *)
(* into a fresh ledger (demo_import_csv, demo_import_json).  call tells    *)
(* whether an import has been made on the ledger.                          *)
(***************************************************************************)
MaxRTTx == 2

NAB == <<"a", ",", "b">>

NBlank == <<" ">>

\* the accounts create_account is called with, in this order
RTChart ==
    << [name |-> NCash, type |-> ASSET],
       [name |-> NLoan, type |-> LIABILITY],
       [name |-> NRent, type |-> EXPENSE],
       [name |-> NCash, type |-> EQUITY],
       [name |-> NAB, type |-> EXPENSE],
       [name |-> NBlank, type |-> EXPENSE] >>

E(a, k) == TransactionEntry(a, DecFromInt(k))

\* the entry lists record_transaction is called with
RTEntryInputs ==
    { <<E(1, 1), E(3, 2), E(2, 3)>>,
      <<E(1, 1), E(3, 2), E(2, 1), E(2, 2)>>,
      <<E(1, 1), E(3, 2), E(2, 1), E(2, 1), E(2, 1)>>,
      <<E(5, 1), E(3, 2), E(2, 3)>>,
      <<E(6, 1), E(3, 2), E(2, 3)>>,
      <<E(1, 1), E(3, 2), E(2, 3), E(2, 0)>>,
      <<E(1, 1), E(4, 1)>>,
      <<E(1, 2), E(2, 2)>>,
      <<E(1, -1), E(2, -1)>> }

\* debits of 1 and 3 against credits of 5 and -1
RecNegativeLeg ==
    JsonDict(Iso1, <<JsonEntry(NCash, "ASSET", Num(1)), JsonEntry(NRent, "EXPENSE", Num(3))>>,
                   <<JsonEntry(NLoan, "LIABILITY", Num(5)),
                     JsonEntry(NTax, "EQUITY", Num(-1))>>)

\* the first of two debit entries on an account whose name is null
RecNullDebit ==
    JsonDict(Iso1, <<[account |-> Null, account_type |-> Str("ASSET"), amount |-> Num(1)],
                     JsonEntry(NRent, "EXPENSE", Num(2))>>,
                   <<JsonEntry(NLoan, "LIABILITY", Num(3))>>)

\* the credit entry on an account whose name is null
RecNullCredit ==
    JsonDict(Iso1, <<JsonEntry(NCash, "ASSET", Num(1)), JsonEntry(NRent, "EXPENSE", Num(2))>>,
                   <<[account |-> Null, account_type |-> Str("LIABILITY"),
                      amount |-> Num(3)]>>)

\* the files imported into the ledger before its log is exported
RTJsonFiles == {<<RecNegativeLeg>>, <<RecNullDebit>>, <<RecNullCredit>>}

RTCsvFiles == {<<RowThirds>>}

\* an import has been made on the ledger
Imported == [op |-> "import", kind |-> "none"]

\* ledger.create_account for the next account of the chart
RTCreateAccount ==
    /\ exported = Nothing
    /\ Len(accounts) < Len(RTChart)
    /\ LET a == RTChart[Len(accounts) + 1]
       IN  accounts' = CreateAccount(Ledger, a.name, a.type).ledger.accounts
    /\ UNCHANGED <<transactions, call, result, exported, fresh>>

\* ledger.record_transaction(date, description, *entries)
RTRecordTransaction ==
    /\ exported = Nothing
    /\ Len(transactions) < MaxRTTx
    /\ \E entries \in RTEntryInputs :
        /\ \A i \in 1..Len(entries) : entries[i].account <= Len(accounts)
        /\ Becomes(RecordTransaction(Ledger, D1, Str("txn"), entries).ledger)
    /\ UNCHANGED <<call, result, exported, fresh>>

\* ledger.import_transactions_from_json(filename)
RTImportJson ==
    /\ exported = Nothing
    /\ Len(transactions) < MaxRTTx
    /\ \E data \in RTJsonFiles :
          Becomes(ImportTransactionsFromJson(Ledger, data).ledger)
    /\ call' = Imported
    /\ UNCHANGED <<result, exported, fresh>>

\* ledger.import_transactions_from_csv(filename)
RTImportCsv ==
    /\ exported = Nothing
    /\ Len(transactions) < MaxRTTx
    /\ \E rows \in RTCsvFiles :
          Becomes(ImportTransactionsFromCsv(Ledger, rows).ledger)
    /\ call' = Imported
    /\ UNCHANGED <<result, exported, fresh>>

\* ledger.export_transactions_to_csv(filename)
DoExportCsv ==
    /\ exported = Nothing
    /\ LET r == ExportTransactionsToCsv(Ledger)
       IN  exported' = [kind |-> "csv", rows |-> r.rows, count |-> r.count,
                        raised |-> r.raised]
    /\ UNCHANGED <<accounts, transactions, call, result, fresh>>

\* ledger.export_transactions_to_json(filename)
DoExportJson ==
    /\ exported = Nothing
    /\ LET r == ExportTransactionsToJson(Ledger)
       IN  exported' = [kind |-> "json", data |-> r.data, count |-> r.count,
                        raised |-> r.raised]
    /\ UNCHANGED <<accounts, transactions, call, result, fresh>>

\* the fresh ledger after an import that ended with r
FreshLedger(kind, r) ==
    [kind |-> kind, accounts |-> r.ledger.accounts, transactions |-> r.ledger.transactions,
     raised |-> r.raised, count |-> r.count, log |-> r.log]

\* Ledger(...).import_transactions_from_csv(filename) on the exported file
ImportCsvFresh ==
    /\ exported.kind = "csv"
    /\ fresh = Nothing
    /\ fresh' = FreshLedger("csv", ImportTransactionsFromCsv(NewLedger, exported.rows))
    /\ UNCHANGED <<accounts, transactions, call, result, exported>>

\* Ledger(...).import_transactions_from_json(filename) on the exported file
ImportJsonFresh ==
    /\ exported.kind = "json"
    /\ fresh = Nothing
    /\ fresh' = FreshLedger("json", ImportTransactionsFromJson(NewLedger, exported.data))
    /\ UNCHANGED <<accounts, transactions, call, result, exported>>

\* the report named which, made on L
Report(which, L) ==
    IF which = "trial_balance" THEN PrintTrialBalance(L)
    ELSE IF which = "balance_sheet" THEN PrintBalanceSheet(L)
    ELSE PrintIncomeStatement(L)

\* a report has ended with r
ReportExecuted(which, r) ==
    /\ Becomes(r.ledger)
    /\ result' = [op |-> which, before |-> Ledger, report |-> r]

\* ledger.print_trial_balance(), print_balance_sheet() or
\* print_income_statement(), once the log has been exported
RTReport ==
    /\ exported # Nothing
    /\ result = Nothing
    /\ \E which \in {"trial_balance", "balance_sheet", "income_statement"} :
          ReportExecuted(which, Report(which, Ledger))
    /\ UNCHANGED <<call, exported, fresh>>

NextRT ==
    \/ RTCreateAccount
    \/ RTReport
    \/ RTRecordTransaction
    \/ RTImportJson
    \/ RTImportCsv
    \/ DoExportCsv
    \/ DoExportJson
    \/ ImportCsvFresh
    \/ ImportJsonFresh

SpecRT == Init /\ [][NextRT]_vars

(***************************************************************************)
(* Properties.                                                             *)
(***************************************************************************)
RECURSIVE ExactSumFrom(_, _, _)
ExactSumFrom(s, i, acc) ==
    IF i > Len(s) THEN acc ELSE ExactSumFrom(s, i + 1, ExactAdd(acc, s[i]))

\* the mathematical sum of a sequence of Decimals
ExactSum(s) == ExactSumFrom(s, 1, DecZero)

\* the balance of an account in the debit-positive convention
NormalizedBalance(account) ==
    IF account.type \in {ASSET, EXPENSE} THEN account.balance ELSE DecNeg(account.balance)

NormalizedBalances(accts) == [i \in 1..Len(accts) |-> NormalizedBalance(accts[i])]

\* C1: after any sequence of record_transaction and import calls, the
\* debit-normalized balances of all accounts sum to zero.
C1_ZeroSum == IsZero(ExactSum(NormalizedBalances(accounts)))

AbsInt(k) == IF k < 0 THEN -k ELSE k

\* the side a signed entry of record_transaction belongs to, as the
\* specification words it: TRUE for a debit
RoutedToDebit(accts, entry) ==
    IF accts[entry.account].type \in {ASSET, EXPENSE}
    THEN IntOfDec(entry.amount) >= 0
    ELSE IntOfDec(entry.amount) < 0

\* the total of the entries routed to one side, in whole cents
RECURSIVE RoutedTotal(_, _, _, _)
RoutedTotal(accts, entries, i, debit_side) ==
    IF i > Len(entries) THEN 0
    ELSE (IF RoutedToDebit(accts, entries[i]) = debit_side
          THEN AbsInt(IntOfDec(entries[i].amount)) ELSE 0)
         + RoutedTotal(accts, entries, i + 1, debit_side)

\* the examined call is record_transaction with unequal routed totals
UnbalancedCall ==
    /\ result.op = "record"
    /\ RoutedTotal(result.before.accounts, call.entries, 1, TRUE)
         # RoutedTotal(result.before.accounts, call.entries, 1, FALSE)

\* C2: record_transaction with unequal routed debit and credit totals fails
\* and leaves the balances, the accounts list and the log as they were.
C2_UnbalancedRejected ==
    UnbalancedCall => result.raised = "ValueError" /\ Ledger = result.before

\* an unbalanced call made on a ledger that holds a posted transaction
C2_Witness ==
    /\ UnbalancedCall
    /\ Len(result.before.transactions) = 1
    /\ Len(call.entries) = 2
    /\ ~IsZero(result.before.accounts[call.entries[1].account].balance)

\* C3: every transaction in the log has a sum of debit amounts exactly equal
\* to its sum of credit amounts.
C3_LoggedBalanced ==
    \A i \in 1..Len(transactions) :
        ExactSum(Amounts(transactions[i].debits)) = ExactSum(Amounts(transactions[i].credits))

\* the entries the specification routes to one side, in call order, each
\* with the absolute value of its amount
ExpectedLegs(accts, entries, debit_side) ==
    LET sel == SelectSeq(entries, LAMBDA e : RoutedToDebit(accts, e) = debit_side)
    IN  [i \in 1..Len(sel) |->
            TransactionEntry(sel[i].account, DecFromInt(AbsInt(IntOfDec(sel[i].amount))))]

\* the sum of the signed amounts a call gives for account a
RECURSIVE SignedTotal(_, _, _)
SignedTotal(entries, a, i) ==
    IF i > Len(entries) THEN 0
    ELSE (IF entries[i].account = a THEN IntOfDec(entries[i].amount) ELSE 0)
         + SignedTotal(entries, a, i + 1)

\* C4: record_transaction files a non-negative amount on an Asset or Expense
\* account as a debit and a negative one as a credit of its absolute value,
\* and the other way round on Liability, Equity and Revenue accounts; a posted
\* call changes every balance by the signed amounts given for the account.
C4_Routing ==
    result.op = "record" =>
        /\ result.transaction.debits
             = ExpectedLegs(result.before.accounts, call.entries, TRUE)
        /\ result.transaction.credits
             = ExpectedLegs(result.before.accounts, call.entries, FALSE)
        /\ result.raised = "none" =>
             \A a \in 1..Len(accounts) :
                 IntOfDec(accounts[a].balance)
                   = IntOfDec(result.before.accounts[a].balance)
                     + SignedTotal(call.entries, a, 1)

\* a call with a zero amount and with a negative amount on a Liability,
\* Equity or Revenue account, filed as one debit and one credit
C4_Witness ==
    /\ result.op = "record"
    /\ \E i, j \in 1..Len(call.entries) :
          /\ IsZero(call.entries[i].amount)
          /\ call.entries[j].amount.neg
          /\ accounts[call.entries[j].account].type \in {LIABILITY, EQUITY, REVENUE}
          /\ Len(result.transaction.debits) = 1
          /\ Len(result.transaction.credits) = 1

\* the amounts Account.debit and Account.credit are called with
LegAmounts == {DecFromInt(k) : k \in 0..MaxAmount}

\* C5: debit adds the amount to the balance of an Asset or Expense account
\* and subtracts it from the balance of the others, credit does the opposite,
\* and debit(a) followed by credit(a) restores the balance.
C5_DebitCredit ==
    \A i \in 1..Len(accounts) : \A a \in LegAmounts :
        LET account == accounts[i]
            up      == ExactAdd(account.balance, a)
            down    == ExactAdd(account.balance, DecNeg(a))
        IN  /\ Debit(account, a).balance
                 = (IF account.type \in {ASSET, EXPENSE} THEN up ELSE down)
            /\ Credit(account, a).balance
                 = (IF account.type \in {ASSET, EXPENSE} THEN down ELSE up)
            /\ Credit(Debit(account, a), a).balance = account.balance

\* C6: a transaction with no debit entries or with no credit entries is never
\* appended to the log, by record_transaction or by either import.
C6_NoOneSided ==
    \A i \in 1..Len(transactions) :
        transactions[i].debits # <<>> /\ transactions[i].credits # <<>>

\* the entries of one side by account name and amount
NamedEntries(accts, entries) ==
    [i \in 1..Len(entries) |->
        [name |-> accts[entries[i].account].name, amount |-> entries[i].amount]]

Range(s) == {s[i] : i \in 1..Len(s)}

\* the accounts the log refers to
Referenced(txs) ==
    UNION {{e.account : e \in Range(txs[i].debits) \cup Range(txs[i].credits)} :
           i \in 1..Len(txs)}

\* C7: a ledger built by record_transaction, exported to JSON and imported
\* into a fresh ledger, gives the same transactions in the same order with the
\* same entries by account name and amount, and the same balance for every
\* account the log refers to.
C7_JsonRoundTrip ==
    (fresh.kind = "json" /\ call # Imported) =>
        /\ fresh.raised = "none"
        /\ Len(fresh.transactions) = Len(transactions)
        /\ \A i \in 1..Len(transactions) :
              /\ NamedEntries(fresh.accounts, fresh.transactions[i].debits)
                   = NamedEntries(accounts, transactions[i].debits)
              /\ NamedEntries(fresh.accounts, fresh.transactions[i].credits)
                   = NamedEntries(accounts, transactions[i].credits)
        /\ \A a \in Referenced(transactions) :
              \E b \in 1..Len(fresh.accounts) :
                  /\ fresh.accounts[b].name = accounts[a].name
                  /\ fresh.accounts[b].balance = accounts[a].balance

\* the transaction has two debit legs of different amounts
TwoUnequalDebits(transaction) ==
    /\ Len(transaction.debits) = 2
    /\ transaction.debits[1].amount # transaction.debits[2].amount

\* the number of records among the first idx that the import posted
PostedUpTo(log, idx) == Cardinality({k \in 1..idx : log[k] = "none"})

\* the idx-th transaction came back from the CSV file with two debit legs of
\* the same amount, half of the debit total it had
ReimportedAsHalves(idx) ==
    /\ idx <= Len(fresh.log)
    /\ fresh.log[idx] = "none"
    /\ LET back == fresh.transactions[PostedUpTo(fresh.log, idx)]
       IN  /\ Len(back.debits) = 2
           /\ back.debits[1].amount = back.debits[2].amount
           /\ ExactAdd(back.debits[1].amount, back.debits[2].amount)
                = ExactSum(Amounts(transactions[idx].debits))

IsBlank(name) == Strip(name) = <<>>

HasComma(name) == \E k \in 1..Len(name) : name[k] = ","

\* the name is one the row gives back to the import: a string, not blank
NameKept(name) == name # NoneName /\ ~IsBlank(name)

\* the j-th credit leg is one the row gives back to the import: the first,
\* on an account with a name kept; the second, on an account with a name
\* kept and with an amount greater than zero
CreditKept(transaction, j) ==
    LET name   == accounts[transaction.credits[j].account].name
        amount == transaction.credits[j].amount
    IN  \/ j = 1 /\ NameKept(name)
        \/ j = 2 /\ NameKept(name) /\ DecCmp(amount, DecZero) > 0

\* what the CSV row keeps of the transaction: debit legs of whole cents on
\* accounts with names that are kept and hold no comma, and every credit leg
\* that is not zero
CsvKeeps(transaction) ==
    /\ \A j \in 1..Len(transaction.debits) :
          LET name == accounts[transaction.debits[j].account].name
          IN  /\ IsWholeCents(transaction.debits[j].amount)
              /\ NameKept(name)
              /\ ~HasComma(name)
\* from a CSV export and import into a fresh ledger with two equal debit legs,
\* each half of the debit total.
C8_AnyTwoDebits ==
    fresh.kind = "csv" =>
        \A idx \in 1..Len(transactions) :
            TwoUnequalDebits(transactions[idx]) => ReimportedAsHalves(idx)

\* rows that post, and rows with a defect of form
ValidCsvRows == {RowGood, RowHalves, RowTwoCredits}

MalformedCsvRows == {RowBadDate, RowBadAmount, RowShort}

\* the file holds valid rows and exactly one malformed row
OneMalformedRow(rows) ==
    \E p \in 1..Len(rows) :
        /\ rows[p] \in MalformedCsvRows
        /\ \A q \in (1..Len(rows)) \ {p} : rows[q] \in ValidCsvRows

ValidRowsOf(rows) == SelectSeq(rows, LAMBDA r : r \in ValidCsvRows)

\* C9: the CSV import of N valid rows and one malformed row returns N and
\* leaves the log and the balances that the N valid rows alone leave.
C9_OneMalformedRow ==
    (result.op = "csv" /\ OneMalformedRow(call.rows)) =>
        LET alone == ImportTransactionsFromCsv(result.before, ValidRowsOf(call.rows)).ledger
        IN  /\ result.raised = "none"
            /\ result.count = Len(call.rows) - 1
            /\ Len(transactions) = Len(result.before.transactions) + Len(call.rows) - 1
            /\ \A i \in 1..Len(alone.accounts) :
                  /\ i <= Len(accounts)
                  /\ accounts[i].balance = alone.accounts[i].balance

\* C10: the imports raise for no defect of a record; every record with a
\* defect is skipped and the count of the posted ones is returned.
C10_ImportsNeverRaise ==
    result.op \in {"csv", "json"} =>
        /\ result.raised = "none"
        /\ Len(result.log) = Len(IF result.op = "csv" THEN call.rows ELSE call.data)
        /\ result.count = PostedUpTo(result.log, Len(result.log))

\* the keyword lists in the order the specification gives the categories
CategoryOrder ==
    << [type |-> ASSET, keywords |-> AssetKeywords],
       [type |-> LIABILITY, keywords |-> LiabilityKeywords],
       [type |-> EQUITY, keywords |-> EquityKeywords],
       [type |-> REVENUE, keywords |-> RevenueKeywords],
       [type |-> EXPENSE, keywords |-> ExpenseKeywords] >>

\* the categories, by position, with a keyword inside the lower-cased name
MatchingCategories(name) ==
    {c \in 1..Len(CategoryOrder) :
        \E k \in 1..Len(CategoryOrder[c].keywords) :
            Contains(Lower(name), CategoryOrder[c].keywords[k])}

\* the first matching category, Asset when there is none
FirstCategory(name) ==
    LET m == MatchingCategories(name)
    IN  IF m = {} THEN ASSET
        ELSE CategoryOrder[CHOOSE c \in m : \A d \in m : c <= d].type

\* the names the specification gives, with their types
InferExamples ==
    { [name |-> <<"C", "a", "s", "h">>, type |-> ASSET],
      [name |-> <<"A", "c", "c", "o", "u", "n", "t", "s", " ", "P", "a", "y", "a", "b", "l", "e">>, type |-> LIABILITY],
      [name |-> <<"O", "w", "n", "e", "r", "'", "s", " ", "C", "a", "p", "i", "t", "a", "l">>, type |-> EQUITY],
      [name |-> <<"I", "n", "t", "e", "r", "e", "s", "t", " ", "I", "n", "c", "o", "m", "e">>, type |-> REVENUE],
      [name |-> <<"W", "a", "g", "e", "s">>, type |-> EXPENSE],
      [name |-> <<"M", "i", "s", "c", "e", "l", "l", "a", "n", "e", "o", "u", "s">>, type |-> ASSET] }

\* C11: _infer_account_type returns the first category, in the order Asset,
\* Liability, Equity, Revenue, Expense, that has a keyword inside the
\* lower-cased name, and Asset when none has; the names the specification
\* gives get the types it gives.
C11_InferFirstCategory ==
    result.op = "infer" =>
        /\ result.type = FirstCategory(call.name)
        /\ \A ex \in InferExamples : call.name = ex.name => result.type = ex.type

\* a name in capitals with keywords of two categories, given the first
C11_Witness ==
    /\ result.op = "infer"
    /\ Cardinality(MatchingCategories(call.name)) = 2
    /\ call.name # Lower(call.name)
    /\ result.type = ASSET
    /\ LIABILITY \in {CategoryOrder[c].type : c \in MatchingCategories(call.name)}

\* the transaction the import logged for the k-th record of the file
LoggedFor(k) ==
    transactions[Len(result.before.transactions) + PostedUpTo(result.log, k)]

\* every entry of one side is on an account of the type its record names
TypesAsWritten(entries, written) ==
    \A j \in 1..Len(entries) :
        accounts[entries[j].account].type = TypeByName(written[j].account_type)

\* C12: every debit and credit entry of a record posted by the JSON import
\* is applied to an account of the account_type written in the entry.
C12_TypeFromRecord ==
    result.op = "json" =>
        \A k \in 1..Len(result.log) :
            result.log[k] = "none" =>
                /\ TypesAsWritten(LoggedFor(k).debits, call.data[k].debits)
                /\ TypesAsWritten(LoggedFor(k).credits, call.data[k].credits)

\* C13: no two accounts of the ledger's accounts list have the same name.
C13_UniqueNames ==
    \A i, j \in 1..Len(accounts) : accounts[i].name = accounts[j].name => i = j

\* C14: every debit and credit entry of every transaction in the log has a
\* non-negative amount.
C14_NonNegativeEntries ==
    \A i \in 1..Len(transactions) :
        \A e \in Range(transactions[i].debits) \cup Range(transactions[i].credits) :
            ~e.amount.neg

\* C15: the trial balance's total of the debit column equals its total of
\* the credit column after any sequence of successful record_transaction and
\* import calls.
C15_TrialBalanceBalanced == PrintTrialBalance(Ledger).balanced

\* C16: after any sequence of successful record_transaction calls the
\* balance sheet has total assets equal to total liabilities plus total
\* equity.
C16_BalanceSheetBalanced ==
    (result.op = "record" /\ result.raised = "none") => PrintBalanceSheet(Ledger).balanced

\* C17: the three reports and the two exports leave the accounts, their
\* balances and the log as they were, and an export returns the number of
\* transactions in the log.
C17_ReadOnly ==
    [][(result' # result \/ exported' # exported) =>
          /\ accounts' = accounts
          /\ transactions' = transactions
          /\ exported' # exported =>
                /\ exported'.raised = "none"
                /\ exported'.count = Len(transactions)]_vars

\* C18: import_transactions_from_json on a document whose top-level value is
\* not a list raises to the caller and posts nothing.
C18_NotAListRaises ==
    (result.op = "json_document" /\ call.doc.tag # "list") =>
        /\ result.raised # "none"
        /\ Ledger = result.before

\* x is an exact multiple of 0.01
IsMultipleOfCent(x) == \A i \in 3..FracDigits : x.fr[i] = 0

\* C19: with every input amount an exact multiple of 0.01, every entry
\* amount in the log and every account balance is an exact multiple of 0.01.
C19_WholeCents ==
    /\ \A i \in 1..Len(accounts) : IsMultipleOfCent(accounts[i].balance)
    /\ \A i \in 1..Len(transactions) :
          \A e \in Range(transactions[i].debits) \cup Range(transactions[i].credits) :
              IsMultipleOfCent(e.amount)

\* what the whole call gives on the ledger it was made on
WholeCall ==
    IF call.op = "csv" THEN ImportTransactionsFromCsv(result.before, call.rows)
    ELSE IF call.op = "json" THEN ImportTransactionsFromJson(result.before, call.data)
    ELSE LET r == RecordTransaction(result.before, D1, Str("txn"), call.entries)
         IN  [ledger |-> r.ledger, raised |-> r.exc,
              count |-> Len(r.ledger.transactions) - Len(result.before.transactions)]

\* the accounts after post has applied the debit entries before the i-th, or
\* all debit entries and the credit entries before the i-th
PostedSoFar(frame) ==
    LET t == frame.transaction
    IN  IF frame.pc = "debits"
        THEN ApplyDebits(frame.checked, SubSeq(t.debits, 1, frame.i - 1), 1)
        ELSE ApplyCredits(ApplyDebits(frame.checked, t.debits, 1),
                          SubSeq(t.credits, 1, frame.i - 1), 1)

\* C20: in record_transaction and in both imports no balance is modified
\* before the transaction is built and is_balanced has returned true; post
\* applies the debit entries in order, then the credit entries in order; the
\* transaction is appended to the log only after post has completed.
C20_PostOrder ==
    [][result'.op = "steps" =>
          /\ \A a \in 1..Len(accounts') :
                IF a > Len(accounts) THEN IsZero(accounts'[a].balance)
                ELSE accounts'[a].balance # accounts[a].balance =>
                        /\ result.pc \in {"debits", "credits"}
                        /\ IsBalanced(result.transaction)
                        /\ result'.transaction = result.transaction
                        /\ accounts = PostedSoFar(result)
                        /\ accounts' = PostedSoFar(result')
          /\ transactions' # transactions =>
                /\ transactions' = Append(transactions, result.transaction)
                /\ accounts = Post(result.checked, result.transaction)
                /\ accounts' = accounts
          /\ result'.pc = "done" =>
                /\ accounts' = WholeCall.ledger.accounts
                /\ transactions' = WholeCall.ledger.transactions
                /\ result'.raised = WholeCall.raised
                /\ result'.count = WholeCall.count]_vars

\* an import of two rows has ended, each posted with two debit entries and
\* the second with two credit entries
C20_Witness ==
    /\ result.op = "steps"
    /\ result.pc = "done"
    /\ call.op = "csv"
    /\ result.count = 2
    /\ Len(transactions) = Len(result.before.transactions) + 2
    /\ \E i \in 1..Len(transactions) :
          Len(transactions[i].debits) >= 2
    /\ Len(transactions[Len(transactions)].credits) = 2

\* the amounts of the entries that refer to account a
AmountsOn(entries, a) == Amounts(SelectSeq(entries, LAMBDA e : e.account = a))

\* the sum of the debit amounts minus the sum of the credit amounts of the
\* entries on account a, over the transactions of the log from the i-th on
RECURSIVE LoggedNet(_, _, _)
LoggedNet(txs, a, i) ==
    IF i > Len(txs) THEN DecZero
    ELSE ExactAdd(ExactAdd(ExactSum(AmountsOn(txs[i].debits, a)),
                           DecNeg(ExactSum(AmountsOn(txs[i].credits, a)))),
                  LoggedNet(txs, a, i + 1))

\* C21: between ledger operations, the debit-normalized balance of every
\* account equals the sum of the debit amounts minus the sum of the credit
\* amounts of the entries on that account in the logged transactions.
C21_PostedOnce ==
    \A a \in 1..Len(accounts) :
        NormalizedBalance(accounts[a]) = LoggedNet(transactions, a, 1)

\* the field holds an amount greater than zero
IsPositiveAmount(f) ==
    /\ f.tag \in {"num", "str"}
    /\ Kind(DecimalOf(f)) \in {"finite", "Infinity"}
    /\ ~DecimalOf(f).neg
    /\ ~IsZero(DecimalOf(f))

\* the credit entries the two credit pairs of a row contribute, by account
\* name and amount: the first pair when its account is not empty, the second
\* when its account is not empty and its amount is present and positive;
\* names are taken without the white space around them
ExpectedCredits(row) ==
    LET name1 == Strip(FieldGet(row.credit_account, Str(<<>>)).s)
        name2 == Strip(FieldGet(row.credit_account_2, Str(<<>>)).s)
        first == IF name1 # <<>>
                 THEN <<[name |-> name1, amount |-> DecimalOf(row.credit_amount)]>>
                 ELSE <<>>
        second == IF name2 # <<>> /\ IsPositiveAmount(row.credit_amount_2)
                  THEN <<[name |-> name2, amount |-> DecimalOf(row.credit_amount_2)]>>
                  ELSE <<>>
    IN  first \o second

\* C22: the transaction the CSV import builds from a row has a credit entry
\* for the first credit pair whenever credit_account is not empty, whatever
\* its amount, and one for the second pair only when credit_account_2 is not
\* empty and credit_amount_2 is present and greater than zero.
C22_CreditPairs ==
    (result.op = "steps" /\ call.op = "csv"
       /\ result.pc \in {"check", "debits", "credits", "append"}) =>
        NamedEntries(accounts, result.transaction.credits)
          = ExpectedCredits(call.rows[result.k])

\* a row with a second credit account and a negative second amount has been
\* posted with the first pair alone
C22_Witness ==
    /\ result.op = "steps"
    /\ call.op = "csv"
    /\ result.pc = "append"
    /\ call.rows[result.k].credit_account_2 = Str(NFee)
    /\ call.rows[result.k].credit_amount_2 = Num(-1)
    /\ Len(result.transaction.credits) = 1
    /\ accounts[result.transaction.credits[1].account].name = NLoan

\* the debit account names a row lists
DebitNamesOf(row) == SplitNames(FieldGet(row.debit_account, Str(<<>>)).s)

\* the fields of the row parse, it lists at least one debit account and its
\* debit_amount is a number, the sum of the credit amounts its credit pairs
\* contribute
SplitsEvenly(row) ==
    /\ CsvParseExc(row) = "none"
    /\ Len(DebitNamesOf(row)) >= 1
    /\ Kind(DecimalOf(row.debit_amount)) \in {"finite", "Infinity"}
    /\ ExactSum([j \in 1..Len(ExpectedCredits(row)) |-> ExpectedCredits(row)[j].amount])
         = DecimalOf(row.debit_amount)

\* C23: a CSV row that lists n >= 1 debit accounts and whose debit_amount
\* equals the sum of its applied credit amounts is posted as a transaction
\* with n debit entries, one per listed account, each of debit_amount / n.
C23_EqualSplit ==
    result.op = "csv" =>
        \A k \in 1..Len(result.log) :
            SplitsEvenly(call.rows[k]) =>
                /\ result.log[k] = "none"
                /\ LET names == DebitNamesOf(call.rows[k])
                       part  == DecDivInt(DecimalOf(call.rows[k].debit_amount), Len(names))
                   IN  NamedEntries(accounts, LoggedFor(k).debits)
                         = [j \in 1..Len(names) |-> [name |-> names[j], amount |-> part]]

\* the names of the accounts of the entries from the i-th on, each but the
\* last followed by a comma and a space
RECURSIVE NamesJoined(_, _, _)
NamesJoined(accts, entries, i) ==
    IF i > Len(entries) THEN <<>>
    ELSE accts[entries[i].account].name
         \o (IF i < Len(entries) THEN <<",", " ">> ELSE <<>>)
         \o NamesJoined(accts, entries, i + 1)

\* the credit pair of a row is the j-th credit entry of the transaction
PairIs(account_field, amount_field, transaction, j) ==
    /\ account_field = Str(accounts[transaction.credits[j].account].name)
    /\ amount_field.tag = "num"
    /\ ParseNumeral(amount_field) = transaction.credits[j].amount

\* C24: export_transactions_to_csv writes one row per logged transaction, in
\* log order, with ids from 1, the debit account names joined in entry
\* order, the sum of the debit amounts, and the first and the second credit
\* entry as its two credit pairs; further credit entries are not in the row.
C24_CsvRows ==
    exported.kind = "csv" =>
        /\ Len(exported.rows) = Len(transactions)
        /\ \A idx \in 1..Len(transactions) :
              LET row == exported.rows[idx]
                  t   == transactions[idx]
              IN  /\ row.id = idx
                  /\ DOMAIN row = {"id", "date", "description", "debit_account",
                                   "debit_amount", "credit_account", "credit_amount",
                                   "credit_account_2", "credit_amount_2"}
                  /\ row.description = t.description
                  /\ row.debit_account = Str(NamesJoined(accounts, t.debits, 1))
                  /\ row.debit_amount.tag = "num"
                  /\ ParseNumeral(row.debit_amount) = ExactSum(Amounts(t.debits))
                  /\ Len(t.credits) >= 1 =>
                        PairIs(row.credit_account, row.credit_amount, t, 1)
                  /\ Len(t.credits) >= 2 =>
                        PairIs(row.credit_account_2, row.credit_amount_2, t, 2)
                  /\ Len(t.credits) < 2 =>
                        row.credit_account_2 = Str(<<>>) /\ row.credit_amount_2 = Str(<<>>)

\* the accounts of the ledger the call was made on that have the name asked for
NamedAsAsked == {i \in 1..Len(result.before.accounts) :
                    result.before.accounts[i].name = call.name}

\* C25: get_or_create_account returns the first account of the accounts list
\* whose name is exactly the name asked for, whatever the type asked for, and
\* adds nothing; when there is none it appends one account of the type asked
\* for with balance zero and returns it.  A second call with the same name
\* returns the same account and adds nothing.
C25_GetOrCreate ==
    result.op = "get_or_create" =>
        /\ transactions = result.before.transactions
        /\ IF NamedAsAsked # {}
           THEN /\ accounts = result.before.accounts
                /\ result.account \in NamedAsAsked
                /\ \A i \in NamedAsAsked : result.account <= i
           ELSE /\ accounts = Append(result.before.accounts,
                                     [name |-> call.name, type |-> call.type,
                                      balance |-> DecZero])
                /\ result.account = Len(accounts)
        /\ result.calls = 2 => result.again = result.account

\* called twice with the name of two accounts and a type that neither has,
\* on a ledger where the first of the two has a balance
C25_Witness ==
    /\ result.op = "get_or_create"
    /\ result.calls = 2
    /\ Cardinality(NamedAsAsked) = 2
    /\ \A i \in NamedAsAsked : accounts[i].type # call.type
    /\ ~IsZero(accounts[result.account].balance)

\* the accounts after the transactions of the log from the i-th on are posted
RECURSIVE PostedFrom(_, _, _)
PostedFrom(accts, txs, i) ==
    IF i > Len(txs) THEN accts ELSE PostedFrom(Post(accts, txs[i]), txs, i + 1)

\* C26: no operation removes or reorders an account or changes the name or
\* the type of an account the ledger has; every account an operation adds
\* starts with balance zero, so that the balances an operation leaves are
\* those of the old accounts and of the new ones at zero with the
\* transactions it logged posted to them (an import that an arithmetic
\* exception has ended may have stopped within a posting).
C26_AccountsAppendOnly ==
    [][/\ Len(accounts') >= Len(accounts)
       /\ \A i \in 1..Len(accounts) :
             /\ accounts'[i].name = accounts[i].name
             /\ accounts'[i].type = accounts[i].type
       /\ LET added   == SubSeq(accounts', Len(accounts) + 1, Len(accounts'))
              started == accounts \o [i \in 1..Len(added) |->
                                         [added[i] EXCEPT !.balance = DecZero]]
          IN  \/ PostedFrom(started, transactions', Len(transactions) + 1) = accounts'
              \/ /\ result'.op \in {"csv", "json"}
                 /\ result'.raised = "InvalidOperation"]_vars

\* a JSON import has posted a credit written as Equity on Cash to the Asset
\* account Cash, which has kept its type, and has added an account
C26_Witness ==
    /\ result.op = "json"
    /\ \E k \in 1..Len(result.log) : call.data[k] = RecOtherType /\ result.log[k] = "none"
    /\ Len(accounts) > Len(result.before.accounts)
    /\ Len(result.before.accounts) >= 1
    /\ accounts[1].name = NCash
    /\ accounts[1].type = ASSET
    /\ accounts[1].balance # result.before.accounts[1].balance

\* C27: every operation leaves the transactions of the log as they were and
\* in their places; a record_transaction call that succeeds appends the one
\* transaction it built and one that fails appends none; an import appends
\* one transaction per record it posts and none for a record it skips.
C27_LogAppendOnly ==
    [][LET appended == SubSeq(transactions', Len(transactions) + 1, Len(transactions'))
       IN  /\ Len(transactions') >= Len(transactions)
           /\ SubSeq(transactions', 1, Len(transactions)) = transactions
           /\ (result' # result /\ result'.op = "record") =>
                 appended = (IF result'.raised = "none"
                             THEN <<result'.transaction>> ELSE <<>>)
           /\ (result' # result /\ result'.op \in {"csv", "json", "json_document"}) =>
                 /\ Len(appended) = PostedUpTo(result'.log, Len(result'.log))
                 /\ result'.raised = "none" => Len(appended) = result'.count
           /\ (result' # result /\ result'.op \in {"infer", "get_or_create"}) =>
                 appended = <<>>]_vars

\* a CSV import on a ledger with a logged transaction has skipped its first
\* row and posted its second
C27_Witness ==
    /\ result.op = "csv"
    /\ result.log = <<"ValueError", "none">>
    /\ result.count = 1
    /\ Len(result.before.transactions) = 1
    /\ Len(transactions) = 2
    /\ transactions[1] = result.before.transactions[1]
    /\ transactions[2] # transactions[1]

\* no operation is inside Transaction.post: the state is one between calls
BetweenCalls == \A j \in 1..2 : ~InProgress(TwoFrames[j])

\* C28: with whole record_transaction and import calls made one after the
\* other behind a single writer, the debit-normalized balances sum to zero
\* in every state between calls; with the steps of two operations
\* interleaved, one Account.debit or Account.credit application at a time, a
\* state with a nonzero sum is reached.
C28_SerializedZeroSum ==
    (call.writer = "single" /\ BetweenCalls) =>
        IsZero(ExactSum(NormalizedBalances(accounts)))

\* without a single writer: the first record_transaction call has returned,
\* the second is inside post, and the balances, all whole cents, do not sum
\* to zero
C28_Witness ==
    /\ result.op = "two"
    /\ call.writer = "none"
    /\ call.items[1].op = "record"
    /\ call.items[2].op = "record"
    /\ result.frames[1].pc = "done"
    /\ result.frames[1].raised = "none"
    /\ result.frames[2].pc \in {"debits", "credits"}
    /\ Len(transactions) = 1
    /\ ~IsZero(ExactSum(NormalizedBalances(accounts)))

\* the records the claim names: not balanced, with an invalid date, with an
\* account_type that is not one of the five
SkippedCsvRows == {RowUnbalanced, RowBadDate}

SkippedJsonRecords == {RecUnbalanced, RecBadDate, RecBadType}

\* every record of the examined file is one of them
AllSkipped ==
    \/ /\ result.op = "csv"
       /\ call.rows # <<>>
       /\ \A k \in 1..Len(call.rows) : call.rows[k] \in SkippedCsvRows
    \/ /\ result.op = "json"
       /\ call.data # <<>>
       /\ \A k \in 1..Len(call.data) : call.data[k] \in SkippedJsonRecords

\* C29: an import whose records are all skipped, for being unbalanced, for
\* an invalid date or for an unrecognized account_type, returns 0 and leaves
\* the accounts list, the balances and the log as they were.
C29_SkippedLeavesLedger ==
    AllSkipped =>
        /\ result.raised = "none"
        /\ result.count = 0
        /\ Ledger = result.before

\* the balance sheet's imbalance: total assets less total liabilities less
\* total equity, of the totals print_balance_sheet adds up
Imbalance(L) ==
    LET sheet == PrintBalanceSheet(L)
    IN  DecSub(DecSub(sheet.total_assets, sheet.total_liabilities), sheet.total_equity)

\* C30: after any sequence of successful record_transaction and import
\* calls, total Asset balances less total Liability balances less total
\* Equity balances equal total Revenue balances less total Expense balances:
\* the balance sheet's imbalance is the income statement's net income.
C30_ImbalanceIsNetIncome ==
    DecEq(Imbalance(Ledger), PrintIncomeStatement(Ledger).net_income)

\* two transactions are logged, the income statement has a net income that
\* is not zero, the balance sheet does not balance, and its imbalance is
\* that net income
C30_Witness ==
    /\ C30_ImbalanceIsNetIncome
    /\ Len(transactions) = 2
    /\ ~IsZero(PrintIncomeStatement(Ledger).net_income)
    /\ ~PrintBalanceSheet(Ledger).balanced

====
